---- MODULE Spec2Model ----
(***************************************************************************)
(* Conversational task-management agent core: the rule-based AgentRunner   *)
(* (backend/agent/runner.py), its pure helpers (agent/handlers), the Tool  *)
(* Gateway (backend/mcp) and the Task Store the tools act on.              *)
(*                                                                         *)
(* Text is modelled as a sequence of Unicode code points, so that          *)
(* lower(), strip(), split(), substring tests and the regular expressions  *)
(* of the source are computed, not assumed.  Messages are single-line      *)
(* (no "\n"); lower() folds A-Z only; whitespace is the ASCII whitespace.  *)
(***************************************************************************)
EXTENDS Integers, Sequences, FiniteSets, TLC

(***************************************************************************)
(* Text primitives (Python str / re semantics on code points)              *)
(***************************************************************************)
WS == {9, 10, 11, 12, 13, 32}

Quotes == {39, 34}

SetMin(S) == CHOOSE x \in S : \A y \in S : x <= y

SetMax(S) == CHOOSE x \in S : \A y \in S : x >= y

\* str.lower()
Lower(s) == [i \in 1..Len(s) |-> IF s[i] \in 65..90 THEN s[i] + 32 ELSE s[i]]

\* str.strip()
Strip(s) ==
  LET idx == {i \in 1..Len(s) : s[i] \notin WS}
  IN  IF idx = {} THEN <<>> ELSE SubSeq(s, SetMin(idx), SetMax(idx))

\* s[k:k+len(lit)] == lit   (k is 1-based)
MatchAt(s, k, lit) ==
  /\ k >= 1
  /\ k + Len(lit) - 1 <= Len(s)
  /\ \A i \in 1..Len(lit) : s[k + i - 1] = lit[i]

\* `sub in s`
Contains(s, sub) == \E k \in 1..(Len(s) + 1) : MatchAt(s, k, sub)

\* length of the whitespace run of s that starts at index k
WsRun(s, k) ==
  LET stops == {j \in k..Len(s) : s[j] \notin WS}
  IN  IF k > Len(s) THEN 0
      ELSE IF stops = {} THEN Len(s) - k + 1 ELSE SetMin(stops) - k

\* str.split(): the whitespace-separated words, in order
Split(s) ==
  LET starts == {i \in 1..Len(s) : s[i] \notin WS /\ (i = 1 \/ s[i - 1] \in WS)}
      WordEnd(i) == LET stops == {j \in i..Len(s) : s[j] \in WS}
                    IN  IF stops = {} THEN Len(s) ELSE SetMin(stops) - 1
      Nth(n) == CHOOSE i \in starts : Cardinality({j \in starts : j < i}) = n - 1
  IN  [n \in 1..Cardinality(starts) |-> SubSeq(s, Nth(n), WordEnd(Nth(n)))]

\* set(s.split())
WordSet(s) == LET Range(words) == {words[i] : i \in 1..Len(words)} IN Range(Split(s))

\* " ".join(words)
Join(words) ==
  LET J[n \in 0..Len(words)] ==
        IF n = 0 THEN <<>>
        ELSE IF n = 1 THEN words[1]
        ELSE J[n - 1] \o <<32>> \o words[n]
  IN  J[Len(words)]

\* value of a decimal digit (\d also matches the Arabic-Indic digits), -1 otherwise
DigitVal(c) ==
  IF c \in 48..57 THEN c - 48
  ELSE IF c \in 1632..1641 THEN c - 1632
  ELSE IF c \in 1776..1785 THEN c - 1776
  ELSE -1

IsDigits(s) == Len(s) > 0 /\ \A i \in 1..Len(s) : DigitVal(s[i]) >= 0

\* int(s) for a string of digits
DigitsToInt(s) ==
  LET V[n \in 0..Len(s)] == IF n = 0 THEN 0 ELSE 10 * V[n - 1] + DigitVal(s[n])
  IN  V[Len(s)]

\* str(n) for n >= 0
IntToStr(n) ==
  LET S[m \in 0..n] == IF m < 10 THEN <<48 + m>> ELSE S[m \div 10] \o <<48 + (m % 10)>>
  IN  S[n]

\* int(s) as used on context.user_id and task_id: the value, or -1 for ValueError
ParseInt(s) == IF IsDigits(Strip(s)) THEN DigitsToInt(Strip(s)) ELSE -1

(***************************************************************************)
(* Language detector  (agent/handlers/language.py)                         *)
(***************************************************************************)
ROMAN_URDU_KEYWORDS ==
  { <<97,115,115,97,108,97,109>> (* "assalam" *), <<119,97,108,97,105,107,117,109>> (* "walaikum" *), <<115,97,108,97,109>> (* "salam" *), <<107,104,117,100,97>> (* "khuda" *), <<97,108,108,97,104>> (* "allah" *),
    <<107,121,97>> (* "kya" *), <<107,105,97>> (* "kia" *), <<107,97,105,115,101>> (* "kaise" *), <<107,97,105,115,97,121>> (* "kaisay" *), <<107,97,105,115,97>> (* "kaisa" *), <<107,97,114,111>> (* "karo" *), <<107,97,114,101,105,110>> (* "karein" *), <<107,97,114,110,97>> (* "karna" *),
    <<104,97,105,110>> (* "hain" *), <<116,104,97>> (* "tha" *), <<116,104,105>> (* "thi" *), <<104,97,97,110>> (* "haan" *), <<110,97,104,105>> (* "nahi" *), <<110,97,104,105,110>> (* "nahin" *),
    <<109,101,114,97>> (* "mera" *), <<109,101,114,105>> (* "meri" *), <<109,101,114,101>> (* "mere" *), <<97,97,112>> (* "aap" *), <<116,117,109>> (* "tum" *), <<97,112>> (* "ap" *),
    <<107,97,114>> (* "kar" *), <<100,101,105,110>> (* "dein" *), <<100,105,106,105,121,101>> (* "dijiye" *), <<107,105,106,105,121,101>> (* "kijiye" *),
    <<116,104,101,101,107>> (* "theek" *), <<116,104,105,107>> (* "thik" *), <<97,99,99,104,97>> (* "accha" *), <<97,99,104,97>> (* "acha" *),
    <<115,104,117,107,114,105,121,97>> (* "shukriya" *), <<109,101,104,101,114,98,97,110,105>> (* "meherbani" *),
    <<100,101,107,104,111>> (* "dekho" *), <<100,105,107,104,97,111>> (* "dikhao" *), <<98,97,116,97,111>> (* "batao" *), <<98,97,116,97>> (* "bata" *),
    <<97,98,104,105>> (* "abhi" *), <<107,97,108>> (* "kal" *), <<97,97,106>> (* "aaj" *), <<112,97,114,115,111>> (* "parso" *),
    <<119,97,108,97>> (* "wala" *), <<119,97,108,105>> (* "wali" *), <<119,97,108,101>> (* "wale" *),
    <<109,117,106,104,101>> (* "mujhe" *), <<109,117,106,104,97,121>> (* "mujhay" *), <<104,117,109,101,105,110>> (* "humein" *),
    <<121,101,104>> (* "yeh" *), <<121,101>> (* "ye" *), <<119,111,104>> (* "woh" *), <<119,111>> (* "wo" *),
    <<97,116,105>> (* "ati" *), <<97,116,97>> (* "ata" *), <<104,97,105>> (* "hai" *), <<104,111>> (* "ho" *), <<109,97,105,110>> (* "main" *), <<116,117,109,104,101>> (* "tumhe" *), <<116,117,109,104,101,105,110>> (* "tumhein" *),
    <<107,111>> (* "ko" *), <<107,97>> (* "ka" *), <<107,105>> (* "ki" *), <<107,101>> (* "ke" *), <<115,101>> (* "se" *), <<112,101>> (* "pe" *), <<112,97,114>> (* "par" *),
    <<98,97,97,116>> (* "baat" *), <<117,114,100,117>> (* "urdu" *), <<115,97,107,116,121>> (* "sakty" *), <<115,97,107,116,97>> (* "sakta" *), <<115,97,107,116,105>> (* "sakti" *),
    <<106,105>> (* "ji" *), <<98,105,108,107,117,108>> (* "bilkul" *), <<122,97,114,111,111,114>> (* "zaroor" *) }

strong_indicators ==
  { <<115,104,117,107,114,105,121,97>> (* "shukriya" *), <<97,115,115,97,108,97,109>> (* "assalam" *), <<119,97,108,97,105,107,117,109>> (* "walaikum" *), <<109,101,104,101,114,98,97,110,105>> (* "meherbani" *), <<107,97,114,111>> (* "karo" *), <<107,97,114,101,105,110>> (* "karein" *), <<100,105,106,105,121,101>> (* "dijiye" *) }

\* faulty variant of URDU_PATTERN: match() at the start instead of search()
URDU_PATTERN_match(s) == Len(s) >= 1 /\ s[1] \in 1536..1791

\* URDU_PATTERN = [\u0600-\u06FF], URDU_PATTERN.search(s)
URDU_PATTERN(s) == \E i \in 1..Len(s) : s[i] \in 1536..1791

\* faulty variant of EnoughKeywords: one keyword is enough
OneKeyword(roman_urdu_matches) == Cardinality(roman_urdu_matches) >= 1

\* language.py:62  len(roman_urdu_matches) >= 2
EnoughKeywords(roman_urdu_matches) == Cardinality(roman_urdu_matches) >= 2

detect_language(message) ==
  LET Detect(words) ==
        IF URDU_PATTERN(message) THEN "ur"
        ELSE IF EnoughKeywords(words \cap ROMAN_URDU_KEYWORDS) THEN "roman_ur"
        ELSE IF words \cap strong_indicators # {} THEN "roman_ur"
        ELSE "en"
  IN  Detect(WordSet(Lower(message)))

(***************************************************************************)
(* Lexical classifiers  (agent/handlers/intent.py)                         *)
(***************************************************************************)
confirmations ==
  { <<121,101,115>> (* "yes" *), <<121,101,115,32,100,101,108,101,116,101>> (* "yes delete" *), <<99,111,110,102,105,114,109>> (* "confirm" *), <<100,111,32,105,116>> (* "do it" *), <<103,111,32,97,104,101,97,100>> (* "go ahead" *), <<111,107>> (* "ok" *), <<111,107,97,121>> (* "okay" *),
    <<104,97,97,110>> (* "haan" *), <<104,97,97,110,32,100,101,108,101,116,101>> (* "haan delete" *), <<106,105>> (* "ji" *), <<106,105,32,104,97,97,110>> (* "ji haan" *), <<116,104,101,101,107,32,104,97,105>> (* "theek hai" *), <<107,97,114,32,100,111>> (* "kar do" *),
    <<1729,1575,1722>> (* "\u06c1\u0627\u06ba" *), <<1580,1740,32,1729,1575,1722>> (* "\u062c\u06cc \u06c1\u0627\u06ba" *), <<1657,1726,1740,1705,32,1729,1746>> (* "\u0679\u06be\u06cc\u06a9 \u06c1\u06d2" *) }

cancellations ==
  { <<110,111>> (* "no" *), <<99,97,110,99,101,108>> (* "cancel" *), <<115,116,111,112>> (* "stop" *), <<110,101,118,101,114,109,105,110,100>> (* "nevermind" *), <<110,101,118,101,114,32,109,105,110,100>> (* "never mind" *), <<110,111,112,101>> (* "nope" *),
    <<110,97,104,105>> (* "nahi" *), <<110,97,104,105,32,110,97,104,105>> (* "nahi nahi" *), <<114,117,107,111>> (* "ruko" *), <<109,97,116,32,107,97,114,111>> (* "mat karo" *), <<114,101,104,110,101,32,100,111>> (* "rehne do" *),
    <<1606,1729,1740,1722>> (* "\u0646\u06c1\u06cc\u06ba" *), <<1585,1705,1608>> (* "\u0631\u06a9\u0648" *), <<1605,1578,32,1705,1585,1608>> (* "\u0645\u062a \u06a9\u0631\u0648" *) }

greetings ==
  { <<104,105>> (* "hi" *), <<104,101,108,108,111>> (* "hello" *), <<104,101,121>> (* "hey" *), <<103,111,111,100,32,109,111,114,110,105,110,103>> (* "good morning" *), <<103,111,111,100,32,101,118,101,110,105,110,103>> (* "good evening" *), <<103,111,111,100,32,97,102,116,101,114,110,111,111,110>> (* "good afternoon" *),
    <<97,115,115,97,108,97,109>> (* "assalam" *), <<97,115,115,97,108,97,109,32,111,32,97,108,97,105,107,117,109>> (* "assalam o alaikum" *), <<115,97,108,97,109>> (* "salam" *), <<97,111,97>> (* "aoa" *),
    <<1575,1604,1587,1604,1575,1605,32,1593,1604,1740,1705,1605>> (* "\u0627\u0644\u0633\u0644\u0627\u0645 \u0639\u0644\u06cc\u06a9\u0645" *), <<1587,1604,1575,1605>> (* "\u0633\u0644\u0627\u0645" *) }

thanks ==
  { <<116,104,97,110,107,115>> (* "thanks" *), <<116,104,97,110,107,32,121,111,117>> (* "thank you" *), <<116,104,97,110,107,32,117>> (* "thank u" *), <<116,104,120>> (* "thx" *), <<116,121>> (* "ty" *),
    <<115,104,117,107,114,105,121,97>> (* "shukriya" *), <<115,104,117,107,114,105,97>> (* "shukria" *), <<109,101,104,101,114,98,97,110,105>> (* "meherbani" *),
    <<1588,1705,1585,1740,1729>> (* "\u0634\u06a9\u0631\u06cc\u06c1" *), <<1605,1729,1585,1576,1575,1606,1740>> (* "\u0645\u06c1\u0631\u0628\u0627\u0646\u06cc" *) }

is_confirmation(message) == Strip(Lower(message)) \in confirmations

is_cancellation(message) == Strip(Lower(message)) \in cancellations

is_greeting(message) ==
  LET msg_lower == Strip(Lower(message))
  IN  msg_lower \in greetings \/ \E g \in greetings : Contains(msg_lower, g)

is_thanks(message) ==
  LET msg_lower == Strip(Lower(message))
  IN  msg_lower \in thanks \/ \E t \in thanks : Contains(msg_lower, t)

(***************************************************************************)
(* Entity extractor  (agent/handlers/intent.py, agent/runner.py)           *)
(***************************************************************************)
NoText == <<0>>   \* Python None where a str is expected (no text holds code point 0)

\* r"(?:task\s+)?(?:id|#|no\.?|number)\s*(\d+)", re.IGNORECASE, re.search
\* The group is the digit run after the leftmost keyword that is followed
\* by optional whitespace and a digit.  0 stands for None (`if task_id:`
\* treats the id 0 as absent too).
IdKeywords == { <<105,100>> (* "id" *), <<35>> (* "#" *), <<110,111>> (* "no" *), <<110,111,46>> (* "no." *), <<110,117,109,98,101,114>> (* "number" *) }

IdDigitsAt(s, p) ==
  \* start index of the digits for a keyword match at p, or 0
  LET l == Lower(s)
      ends == {p + Len(k) : k \in {k \in IdKeywords : MatchAt(l, p, k)}}
      ok == {e + WsRun(s, e) : e \in {e \in ends :
                e + WsRun(s, e) <= Len(s) /\ DigitVal(s[e + WsRun(s, e)]) >= 0}}
  IN  IF ok = {} THEN 0 ELSE SetMin(ok)

extract_task_id(message) ==
  LET Digits(d) ==
        LET Upto(stops) ==
              DigitsToInt(SubSeq(message, d,
                                 IF stops = {} THEN Len(message) ELSE SetMin(stops) - 1))
        IN  Upto({j \in d..Len(message) : DigitVal(message[j]) < 0})
      First(at) ==
        LET Sel(hits) == IF hits = {} THEN 0 ELSE Digits(at[SetMin(hits)])
        IN  Sel({p \in DOMAIN at : at[p] # 0})
  IN  First([p \in 1..Len(message) |-> IdDigitsAt(message, p)])

\* suffixes: \s+task | (?:\s|$) | (?:\s+as|\s+task|$) | $
SufWsTask(s, k) ==
  LET After(w) == w >= 1 /\ MatchAt(Lower(s), k + w, <<116,97,115,107>> (* "task" *)) IN After(WsRun(s, k))

SufWsOrEnd(s, k) == k = Len(s) + 1 \/ (k <= Len(s) /\ s[k] \in WS)

SufAsTaskEnd(s, k) ==
  \/ LET After(w) == w >= 1 /\ MatchAt(Lower(s), k + w, <<97,115>> (* "as" *)) IN After(WsRun(s, k))
  \/ SufWsTask(s, k)
  \/ k = Len(s) + 1

SufEnd(s, k) == k = Len(s) + 1

\* the suffix of a pattern, by name
Suffix(suffix, s, k) ==
  CASE suffix = "ws_task" -> SufWsTask(s, k)
    [] suffix = "ws_or_end" -> SufWsOrEnd(s, k)
    [] suffix = "as_task_end" -> SufAsTaskEnd(s, k)
    [] suffix = "end" -> SufEnd(s, k)

\* Tail of the reference patterns:  \s+ ['"]? (.+?) ['"]? SUFFIX
\* (\s* when minWs = 0 and no whitespace is required).  The backtracking
\* order of `re` is: longest whitespace first, the opening quote taken
\* first, shortest group first; the closing quote and the suffix do not
\* change the group.  Returns <<start, length>> of the group or <<0, 0>>.
LazyGroup(s, k, minWs, suffix) ==
  LET Better(c, d) == \/ c[1] > d[1]
                      \/ c[1] = d[1] /\ c[2] > d[2]
                      \/ c[1] = d[1] /\ c[2] = d[2] /\ c[3] <= d[3]
      Group(b) == <<k + b[1] + b[2], b[3]>>
      Pick(cands) == IF cands = {} THEN <<0, 0>>
                     ELSE Group(CHOOSE c \in cands : \A d \in cands : Better(c, d))
      \* gs: first index of the group, ge: the index after it
      Fits(c, gs, ge) ==
        /\ c[2] = 1 => (k + c[1] <= Len(s) /\ s[k + c[1]] \in Quotes)
        /\ ge - 1 <= Len(s)
        /\ \A i \in gs..(ge - 1) : s[i] # 10
        /\ \E e \in {ge, ge + 1} :
              /\ e = ge + 1 => (ge <= Len(s) /\ s[ge] \in Quotes)
              /\ Suffix(suffix, s, e)
  IN  Pick({c \in (minWs..WsRun(s, k)) \X {0, 1} \X (1..Len(s)) :
              Fits(c, k + c[1] + c[2], k + c[1] + c[2] + c[3])})

\* re.search(...).group(1): at[p] is <<start, length>> of the group when
\* the pattern matches at index p and <<0, 0>> when it does not; the
\* group of the leftmost match, or NoText
LeftmostGroup(s, at) ==
  LET Group(g) == SubSeq(s, g[1], g[1] + g[2] - 1)
      Sel(hits) == IF hits = {} THEN NoText ELSE Group(at[SetMin(hits)])
  IN  Sel({p \in DOMAIN at : at[p][1] # 0})

\* (?:w1|w2|...) TAIL : at each index, the group of a word that matches
\* there and is followed by a matching tail
PrefixedGroup(s, words, minWs, suffix) ==
  LET Pick(gs) == IF gs = {} THEN <<0, 0>> ELSE CHOOSE g \in gs : TRUE
      At(p) == Pick({LazyGroup(s, p + Len(w), minWs, suffix) :
                       w \in {w \in words : MatchAt(Lower(s), p, w)}} \ {<<0, 0>>})
  IN  LeftmostGroup(s, [p \in 1..Len(s) |-> At(p)])

\* r"['\"](.+?)['\"]"
QuotedGroup(s) ==
  LET Close(p) == {e \in (p + 2)..Len(s) :
                     s[e] \in Quotes /\ \A i \in (p + 1)..(e - 1) : s[i] # 10}
      Group(p) == SubSeq(s, p + 1, SetMin(Close(p)) - 1)
      Sel(hits) == IF hits = {} THEN NoText ELSE Group(SetMin(hits))
  IN  Sel({p \in 1..Len(s) : s[p] \in Quotes /\ Close(p) # {}})

\* `for pattern in patterns: ... if match: return ...`: the first group
\* that is not NoText, or NoText
FirstText(groups) ==
  LET Sel(hits) == IF hits = {} THEN NoText ELSE groups[SetMin(hits)]
  IN  Sel({i \in 1..Len(groups) : groups[i] # NoText})

extract_task_reference(message) ==
  LET Stripped(g) == IF g = NoText THEN NoText ELSE Strip(g)
  IN  Stripped(FirstText(
        << PrefixedGroup(message, { <<116,104,101>> (* "the" *), <<109,121>> (* "my" *) }, 1, "ws_task"),
           PrefixedGroup(message, { <<116,97,115,107>> (* "task" *) }, 1, "ws_or_end"),
           QuotedGroup(message),
           PrefixedGroup(message,
             { <<109,97,114,107>> (* "mark" *), <<99,111,109,112,108,101,116,101>> (* "complete" *), <<100,101,108,101,116,101>> (* "delete" *), <<117,112,100,97,116,101>> (* "update" *), <<114,101,109,111,118,101>> (* "remove" *) }, 1,
             "as_task_end") >>))

\* One step of the title patterns: a literal followed by whitespace
\* (\s+ when min = 1, \s* when min = 0), the step optional when opt.
\* SeqMatch is the start index of the final greedy group (.+) under the
\* backtracking order of `re` (an optional step is taken first, with the
\* longest whitespace first), or 0 when the pattern does not match at k.
\* M[p, n]: the items from the n-th on, matched at index p.
SeqMatch(s, k, items) ==
  LET M[p \in 1..(Len(s) + 1), n \in 1..(Len(items) + 1)] ==
        IF n > Len(items) THEN (IF p <= Len(s) /\ s[p] # 10 THEN p ELSE 0)
        ELSE LET it == items[n]
                 e == p + Len(it.lit)
                 takes == IF MatchAt(Lower(s), p, it.lit)
                          THEN {w \in it.min..WsRun(s, e) : M[e + w, n + 1] # 0}
                          ELSE {}
             IN  IF takes # {} THEN M[e + SetMax(takes), n + 1]
                 ELSE IF it.opt THEN M[p, n + 1]
                 ELSE 0
  IN  M[k, 1]

Step(lit, min, opt) == [lit |-> lit, min |-> min, opt |-> opt]

\* re.search: the group (.+) of the leftmost start position that matches
\* one of the alternative item lists
SearchGroup(s, alts) ==
  LET Pick(gs) == IF gs = {} THEN 0 ELSE CHOOSE g \in gs : TRUE
      At(p) == Pick({SeqMatch(s, p, a) : a \in alts} \ {0})
      Group(g) ==
        LET Upto(stops) == SubSeq(s, g, IF stops = {} THEN Len(s) ELSE SetMin(stops) - 1)
        IN  Upto({j \in g..Len(s) : s[j] = 10})
      First(at) ==
        LET Sel(hits) == IF hits = {} THEN NoText ELSE Group(at[SetMin(hits)])
        IN  Sel({p \in DOMAIN at : at[p] # 0})
  IN  First([p \in 1..Len(s) |-> At(p)])

TitleOpts == << Step(<<97>> (* "a" *), 1, TRUE), Step(<<116,97,115,107>> (* "task" *), 1, TRUE), Step(<<116,111>> (* "to" *), 1, TRUE) >>

\* r"(?:add|create|new)\s+(?:a\s+)?(?:task\s+)?(?:to\s+)?(.+)"
TitlePattern1 ==
  { <<Step(w, 1, FALSE)>> \o TitleOpts : w \in { <<97,100,100>> (* "add" *), <<99,114,101,97,116,101>> (* "create" *), <<110,101,119>> (* "new" *) } }

\* r"(?:remind\s+me\s+to\s+)(.+)"
TitlePattern2 ==
  { << Step(<<114,101,109,105,110,100>> (* "remind" *), 1, FALSE), Step(<<109,101>> (* "me" *), 1, FALSE), Step(<<116,111>> (* "to" *), 1, FALSE) >> }

\* r"(?:task\s*:\s*)(.+)"
TitlePattern3 == { << Step(<<116,97,115,107>> (* "task" *), 0, FALSE), Step(<<58>> (* ":" *), 0, FALSE) >> }

skip == { <<97,100,100>> (* "add" *), <<99,114,101,97,116,101>> (* "create" *), <<110,101,119>> (* "new" *), <<116,97,115,107>> (* "task" *), <<97>> (* "a" *), <<116,111>> (* "to" *), <<112,108,101,97,115,101>> (* "please" *), <<112,108,122>> (* "plz" *) }

\* AgentRunner._extract_title; NoText stands for None
_extract_title(message) ==
  LET Rest(title_words) == IF title_words # <<>> THEN Join(title_words) ELSE NoText
      Title(g) ==
        IF g # NoText THEN Strip(g)
        ELSE Rest(SelectSeq(Split(Lower(message)), LAMBDA w : w \notin skip))
  IN  Title(FirstText(<< SearchGroup(message, TitlePattern1),
                         SearchGroup(message, TitlePattern2),
                         SearchGroup(message, TitlePattern3) >>))

\* r"(?:rename|change|update)\s+(?:to|title\s+to)\s+['\"]?(.+?)['\"]?$"
\* index after "(?:to|title\s+to)" for a verb at p, or 0
RenameToEnd(s, p) ==
  LET TitleTo(b, w) ==                    \* title\s+to at b, w = the whitespace run
        IF w >= 1 /\ MatchAt(Lower(s), b + 5 + w, <<116,111>> (* "to" *)) THEN b + 5 + w + 2 ELSE 0
      To(b) ==
        IF MatchAt(Lower(s), b, <<116,111>> (* "to" *)) THEN b + 2
        ELSE IF MatchAt(Lower(s), b, <<116,105,116,108,101>> (* "title" *)) THEN TitleTo(b, WsRun(s, b + 5))
        ELSE 0
      AfterVerb(a, w) == IF w = 0 THEN 0 ELSE To(a + w)
      Verb(a) == AfterVerb(a, WsRun(s, a))
      Verbs(verbs) == IF verbs = {} THEN 0 ELSE Verb(p + Len(CHOOSE v \in verbs : TRUE))
  IN  Verbs({v \in { <<114,101,110,97,109,101>> (* "rename" *), <<99,104,97,110,103,101>> (* "change" *), <<117,112,100,97,116,101>> (* "update" *) } : MatchAt(Lower(s), p, v)})

RenameGroup(s) ==
  LET GroupFrom(k) == IF k = 0 THEN <<0, 0>> ELSE LazyGroup(s, k, 1, "end")
  IN  LeftmostGroup(s, [p \in 1..Len(s) |-> GroupFrom(RenameToEnd(s, p))])

\* AgentRunner._extract_updates: the partial field map, as a function on
\* the keys that were extracted
_extract_updates(message) ==
  LET Priority(msg_lower) ==
        IF Contains(msg_lower, <<104,105,103,104>> (* "high" *)) THEN "High"
        ELSE IF Contains(msg_lower, <<108,111,119>> (* "low" *)) THEN "Low"
        ELSE IF Contains(msg_lower, <<109,101,100,105,117,109>> (* "medium" *)) THEN "Medium"
        ELSE ""
      Updates(prio, g) ==
        [k \in (IF prio # "" THEN {"priority"} ELSE {}) \cup
                (IF g # NoText THEN {"title"} ELSE {})
           |-> IF k = "priority" THEN prio ELSE Strip(g)]
  IN  Updates(Priority(Lower(message)), RenameGroup(message))

(***************************************************************************)
(* Task matcher  (agent/handlers/intent.py)                                *)
(***************************************************************************)
NoTask == [id |-> 0, title |-> NoText, completed |-> FALSE, priority |-> ""]

\* the `for task in tasks` loop: <<exact_match, matches>> after it;
\* L[n] is the pair after n iterations, an exact match ends the loop
\* faulty variant of ExactMatch: the exact tier is missing
NeverExact(title, query_lower) == FALSE

\* intent.py:41  if title == query_lower
ExactMatch(title, query_lower) == title = query_lower

MatchLoop(query_lower, tasks) ==
  LET Enough(overlap, query_words) ==
        2 * Cardinality(overlap) >= Cardinality(query_words) /\ Cardinality(overlap) >= 1
      Overlaps(query_words, title_words) ==
        Enough(query_words \cap title_words, query_words)
      Visit(before, task, title) ==
        IF before[1] # NoTask THEN before
        ELSE IF ExactMatch(title, query_lower) THEN <<task, <<task>>>>
        ELSE IF Contains(title, query_lower) \/ Contains(query_lower, title)
             THEN <<NoTask, Append(before[2], task)>>
        ELSE IF Overlaps(WordSet(query_lower), WordSet(title))
             THEN <<NoTask, Append(before[2], task)>>
        ELSE before
      L[n \in 0..Len(tasks)] ==
        IF n = 0 THEN <<NoTask, <<>>>>
        ELSE Visit(L[n - 1], tasks[n], Lower(tasks[n].title))
  IN  L[Len(tasks)]

\* faulty variant of MatchResult: of several candidates the first is returned
FirstCandidate(r) ==
  IF r[1] # NoTask THEN <<r[1], <<r[1]>>>>
  ELSE IF Len(r[2]) >= 1 THEN <<r[2][1], r[2]>>
  ELSE <<NoTask, r[2]>>

\* intent.py:57-63: the return after the loop, r = <<exact_match, matches>>
MatchResult(r) ==
  IF r[1] # NoTask THEN <<r[1], <<r[1]>>>>
  ELSE IF Len(r[2]) = 1 THEN <<r[2][1], r[2]>>
  ELSE <<NoTask, r[2]>>

\* <<matched_task, all_matching_tasks>>, NoTask for None
match_task_by_title(query, tasks) ==
  IF tasks = <<>> \/ query = <<>> THEN <<NoTask, <<>>>>
  ELSE MatchResult(MatchLoop(Strip(Lower(query)), tasks))

\* faulty variant of detect_ambiguity: several candidates go unnoticed
never_ambiguous(matches) == FALSE

detect_ambiguity(matches) == Len(matches) > 1

(***************************************************************************)
(* Bounds and inputs                                                       *)
(***************************************************************************)
MaxTasks == 2     \* rows the Task Store may ever hold (ids 1..MaxTasks)

MaxStamp == 2     \* writes one row may take after its creation

\* guardrails of agent/runner.py
MAX_ITERATIONS == 10

TIMEOUT_SECONDS == 30

\* context.user_id values: two numeric ids and one that int() rejects
CtxUsers == { <<49>> (* "1" *), <<50>> (* "2" *), <<117,55>> (* "u7" *) }

Messages ==
  { <<104,105>> (* "hi" *), <<116,104,97,110,107,115>> (* "thanks" *), <<121,101,115>> (* "yes" *), <<110,111>> (* "no" *), <<110,97,104,105>> (* "nahi" *), <<1729,1575,1722>> (* "\u06c1\u0627\u06ba" *), <<120,121,122>> (* "xyz" *),
    <<97,100,100,32,116,97,115,107,32,98,117,121,32,109,105,108,107>> (* "add task buy milk" *), <<97,100,100>> (* "add" *), <<115,104,111,119,32,109,121,32,116,97,115,107,115>> (* "show my tasks" *),
    <<100,101,108,101,116,101,32,98,117,121,32,109,105,108,107>> (* "delete buy milk" *), <<100,101,108,101,116,101,32,116,97,115,107,32,105,100,32,50>> (* "delete task id 2" *), <<100,101,108,101,116,101,32,98,117,121>> (* "delete buy" *), <<100,101,108,101,116,101,32,120,121,122>> (* "delete xyz" *),
    <<99,111,109,112,108,101,116,101,32,99,97,108,108,32,109,111,109>> (* "complete call mom" *), <<99,111,109,112,108,101,116,101,32,98,117,121>> (* "complete buy" *), <<99,111,109,112,108,101,116,101,32,120,121,122>> (* "complete xyz" *),
    <<117,112,100,97,116,101,32,99,97,108,108,32,109,111,109,32,108,111,119>> (* "update call mom low" *), <<117,112,100,97,116,101,32,98,117,121>> (* "update buy" *), <<117,112,100,97,116,101,32,120,121,122>> (* "update xyz" *),
    <<104,97,97,110>> (* "haan" *), <<97,100,100,32,111,114,32,100,101,108,101,116,101,32,98,117,121,32,109,105,108,107>> (* "add or delete buy milk" *), <<115,104,111,119,32,99,111,109,112,108,101,116,101,100,32,116,97,115,107,115>> (* "show completed tasks" *),
    <<109,97,114,107,32,97,110,100,32,114,101,109,111,118,101,32,99,97,108,108,32,109,111,109>> (* "mark and remove call mom" *), <<114,101,109,111,118,101,32,97,110,100,32,117,112,100,97,116,101,32,98,117,121,32,109,105,108,107>> (* "remove and update buy milk" *) }

\* the messages of interleaved turns
TurnMessages ==
  { <<100,101,108,101,116,101,32,98,117,121,32,109,105,108,107>> (* "delete buy milk" *), <<100,101,108,101,116,101,32,116,97,115,107,32,105,100,32,50>> (* "delete task id 2" *), <<121,101,115>> (* "yes" *), <<110,111>> (* "no" *), <<99,111,109,112,108,101,116,101,32,99,97,108,108,32,109,111,109>> (* "complete call mom" *),
    <<107,97,114,111,32,100,101,108,101,116,101,32,116,97,115,107,32,105,100,32,50>> (* "karo delete task id 2" *), <<1581,1584,1601,32,116,97,115,107,32,105,100,32,50>> (* "\u062d\u0630\u0641 task id 2" *),
    <<121,101,115,32,100,101,108,101,116,101>> (* "yes delete" *), <<104,97,97,110,32,100,101,108,101,116,101>> (* "haan delete" *), <<1729,1575,1722,32,1581,1584,1601>> (* "\u06c1\u0627\u06ba \u062d\u0630\u0641" *) }

(***************************************************************************)
(* Envelopes  (mcp/schemas/responses.py)                                   *)
(***************************************************************************)
NoData == [none |-> TRUE]

NoError == [none |-> TRUE]

\* ToolResponse.ok(data).model_dump()
ToolResponse_ok(data) == [success |-> TRUE, data |-> data, error |-> NoError]

\* faulty variant of ToolResponse_fail: the details are returned as data too
ToolResponse_fail_with_data(code, details) ==
  [success |-> FALSE, data |-> details, error |-> [code |-> code, details |-> details]]

\* ToolResponse.fail(code, message, details).model_dump()
ToolResponse_fail(code, details) ==
  [success |-> FALSE, data |-> NoData, error |-> [code |-> code, details |-> details]]

\* dict.get(key, default) on a parameter map
Get(p, k, default) == IF k \in DOMAIN p THEN p[k] ELSE default

(***************************************************************************)
(* Task Store and the five tools  (mcp/crud/task.py, mcp/tools/*.py)       *)
(* A store is a function from row id to a row; NoRow marks a free or       *)
(* deleted id.  Ids are never reused.                                      *)
(***************************************************************************)
NoRow == [user_id |-> 0, title |-> NoText, completed |-> FALSE, priority |-> "",
          updated_at |-> 0]

VALID_PRIORITIES == {"P1", "P2", "P3", "P4"}

\* faulty variant of get_task_by_id_and_user: the owner filter is missing
get_task_by_id(st, task_id, owner) ==
  IF task_id \in DOMAIN st /\ st[task_id] # NoRow THEN task_id ELSE 0

\* select(Task).where(Task.id == task_id).where(Task.user_id == user_id).first():
\* the row id, or 0 for None
get_task_by_id_and_user(st, task_id, owner) ==
  IF task_id \in DOMAIN st /\ st[task_id] # NoRow /\ st[task_id].user_id = owner
  THEN task_id ELSE 0

\* ids of the user's rows (get_tasks_filtered without filters)
get_tasks_filtered(st, owner) ==
  {i \in DOMAIN st : st[i] # NoRow /\ st[i].user_id = owner}

\* order_by(Task.created_at.desc()): ids grow with created_at, so the
\* newest row is the one with the greatest id
RECURSIVE NewestFirst(_)
NewestFirst(ids) ==
  IF ids = {} THEN <<>>
  ELSE LET Top(newest) == <<newest>> \o NewestFirst(ids \ {newest})
       IN  Top(CHOOSE i \in ids : \A j \in ids : j <= i)

\* task_id_valid: int(v) > 0
task_id_valid(v) == ParseInt(v) > 0

\* title_valid: not empty after strip()
title_valid(v) == Strip(v) # <<>>

\* outcome of a tool: the envelope, the store after it, the next free id,
\* and whether the tool committed a change
ToolOutcome(resp, st, nid, committed) ==
  [resp |-> resp, store |-> st, nextId |-> nid, committed |-> committed]

\* One effect of a tool on the world outside it, in the order the tool
\* performs them: opening a session, a commit of the Task Store, an event
\* handed to the Event Sink.
Effect(step, what, task_id, owner) ==
  [step |-> step, what |-> what, task_id |-> task_id, user_id |-> owner]

\* session = get_session()
Opened == Effect("get_session", "", 0, 0)

\* session.commit() of a write to the row task_id
Committed(task_id, owner) == Effect("commit", "", task_id, owner)

\* events/emitter.py emit_event(event_type, user_id, task_id, data): never raises
emit_event(event_type, owner, task_id) == Effect("emit_event", event_type, task_id, owner)

\* faulty variant of Rejected: the session is opened before validation
RejectedInSession(code, field, st, nid) ==
  ToolOutcome(ToolResponse_fail(code, [field |-> field]), st, nid, FALSE)
    @@ [effects |-> <<Opened>>, failure |-> "", escaped |-> FALSE]

\* except ValidationError: return ToolResponse.fail(...), before the try
\* block that opens the session
Rejected(code, field, st, nid) ==
  ToolOutcome(ToolResponse_fail(code, [field |-> field]), st, nid, FALSE)
    @@ [effects |-> <<>>, failure |-> "", escaped |-> FALSE]

\* a return inside the try block
Answered(resp, st, nid, committed, effects) ==
  ToolOutcome(resp, st, nid, committed)
    @@ [effects |-> effects, failure |-> "", escaped |-> FALSE]

\* faulty variant of Caught: the exception e leaves the tool
Uncaught(e, st, nid, committed, effects) ==
  ToolOutcome(ToolResponse_fail("processing_error", [error |-> e]), st, nid, committed)
    @@ [effects |-> effects, failure |-> e, escaped |-> TRUE]

\* except Exception as e: return ToolResponse.fail("processing_error", ...).
\* What was committed before the exception stays committed.
Caught(e, st, nid, committed, effects) ==
  ToolOutcome(ToolResponse_fail("processing_error", [error |-> e]), st, nid, committed)
    @@ [effects |-> effects, failure |-> e, escaped |-> FALSE]

\* def from_task(cls, task, user_id)
from_task_parameters == {"task", "user_id"}

\* TaskData.from_task called with the arguments named in passed: Python
\* raises TypeError for a keyword the function does not declare
TaskData_from_task(row, id, owner, passed) ==
  IF passed \subseteq from_task_parameters
  THEN [raised |-> FALSE,
        data |-> [id |-> id, user_id |-> owner, title |-> row.title,
                  completed |-> row.completed, priority |-> row.priority]]
  ELSE [raised |-> TRUE, data |-> NoData]

\* TaskData.from_task(task, validated.user_id, tags=tags), as the tools call it
FromTaskCall == {"task", "user_id", "tags"}

\* mcp/crud/task.py create_task: Task(..., completed=False, priority=params.priority or "P3")
create_task(owner, params) ==
  [user_id |-> owner, title |-> Strip(params["title"]), completed |-> FALSE,
   priority |-> Get(params, "priority", "P3"), updated_at |-> 0]

\* mcp/tools/add_task.py.  create_task commits; TaskData.from_task is then
\* called with tags=tags; emit_event and the success return come after it.
add_task(params, user_id_int, st, nid, db_ok) ==
  IF ~title_valid(params["title"])
  THEN Rejected("invalid_input", "title", st, nid)
  ELSE IF Get(params, "priority", "P3") \notin VALID_PRIORITIES
  THEN Rejected("invalid_priority", "priority", st, nid)
  ELSE IF ~db_ok
  THEN Caught("db", st, nid, FALSE, <<Opened>>)
  ELSE LET Created(row, task_data) ==
             IF task_data.raised
             THEN Caught("TypeError", [st EXCEPT ![nid] = row], nid + 1, TRUE,
                         <<Opened, Committed(nid, user_id_int)>>)
             ELSE Answered(ToolResponse_ok(task_data.data),
                           [st EXCEPT ![nid] = row], nid + 1, TRUE,
                           <<Opened, Committed(nid, user_id_int),
                             emit_event("task.created", user_id_int, nid)>>)
           Made(row) ==
             Created(row, TaskData_from_task(row, nid, params["user_id"], FromTaskCall))
       IN  Made(create_task(user_id_int, params))

\* mcp/tools/list_tasks.py.  The loop at :42 calls
\* TaskData.from_task(task, validated.user_id, tags=tags) for every row found.
list_tasks(params, user_id_int, st, nid, db_ok) ==
  IF ~db_ok
  THEN Caught("db", st, nid, FALSE, <<Opened>>)
  ELSE LET Data(tasks, i) ==
             TaskData_from_task(st[tasks[i]], tasks[i], params["user_id"], FromTaskCall)
           Listed(tasks) ==
             IF \E i \in 1..Len(tasks) : Data(tasks, i).raised
             THEN Caught("TypeError", st, nid, FALSE, <<Opened>>)
             ELSE Answered(ToolResponse_ok([tasks |-> [i \in 1..Len(tasks) |-> Data(tasks, i).data],
                                            total |-> Len(tasks)]),
                           st, nid, FALSE, <<Opened>>)
       IN  Listed(NewestFirst(get_tasks_filtered(st, user_id_int)))

\* faulty variant of MarkCompleted: the row is written on every call
MarkCompletedAgain(row) ==
  [row EXCEPT !.completed = TRUE, !.updated_at = @ + 1]

\* complete_task.py:59-64: if not task.completed: task.completed = True;
\* task.updated_at = datetime.utcnow(); commit
MarkCompleted(row) ==
  IF ~row.completed
  THEN [row EXCEPT !.completed = TRUE, !.updated_at = @ + 1]
  ELSE row

\* mcp/tools/complete_task.py
complete_task(params, user_id_int, st, nid, db_ok) ==
  IF ~task_id_valid(params["task_id"])
  THEN Rejected("invalid_input", "task_id", st, nid)
  ELSE IF ~db_ok
  THEN Caught("db", st, nid, FALSE, <<Opened>>)
  ELSE LET Found(task) ==
             IF task = 0
             THEN Answered(ToolResponse_fail("not_found", [task_id |-> params["task_id"]]),
                           st, nid, FALSE, <<Opened>>)
             ELSE LET Done(row) ==
                        Answered(ToolResponse_ok([id |-> task, title |-> row.title,
                                                  completed |-> row.completed]),
                                 [st EXCEPT ![task] = row], nid, row # st[task],
                                 IF row # st[task]
                                 THEN <<Opened, Committed(task, user_id_int)>>
                                 ELSE <<Opened>>)
                  IN  Done(MarkCompleted(st[task]))
       IN  Found(get_task_by_id_and_user(st, ParseInt(params["task_id"]), user_id_int))

\* mcp/tools/delete_task.py: crud_delete commits, then the success return
delete_task(params, user_id_int, st, nid, db_ok) ==
  IF ~task_id_valid(params["task_id"])
  THEN Rejected("invalid_input", "task_id", st, nid)
  ELSE IF ~db_ok
  THEN Caught("db", st, nid, FALSE, <<Opened>>)
  ELSE LET Found(task) ==
             IF task = 0
             THEN Answered(ToolResponse_fail("not_found", [task_id |-> params["task_id"]]),
                           st, nid, FALSE, <<Opened>>)
             ELSE Answered(ToolResponse_ok([deleted |-> TRUE, task_id |-> params["task_id"]]),
                           [st EXCEPT ![task] = NoRow], nid, TRUE,
                           <<Opened, Committed(task, user_id_int)>>)
       IN  Found(get_task_by_id_and_user(st, ParseInt(params["task_id"]), user_id_int))

\* UpdateTaskParams.has_update_fields
UpdateFields == {"title", "description", "priority", "due_date", "completed",
                 "tags", "recurrence_rule", "reminder_minutes"}

has_update_fields(params) == DOMAIN params \cap UpdateFields # {}

\* faulty variant of crud_update: the title is appended to, not replaced
crud_update_appending(row, params) ==
  [row EXCEPT !.title = IF "title" \in DOMAIN params THEN @ \o params["title"] ELSE @,
              !.priority = Get(params, "priority", @),
              !.completed = Get(params, "completed", @),
              !.updated_at = @ + 1]

\* mcp/crud/task.py update_task: only the provided fields are assigned;
\* task.updated_at = datetime.utcnow() on every call.  updated_at counts
\* the writes of the row: the clock has moved on at each of them.
crud_update(row, params) ==
  [row EXCEPT !.title = Get(params, "title", @),
              !.priority = Get(params, "priority", @),
              !.completed = Get(params, "completed", @),
              !.updated_at = @ + 1]

\* mcp/tools/update_task.py.  crud_update commits; TaskData.from_task is
\* then called with tags=tags; emit_event and the success return come after it.
update_task(params, user_id_int, st, nid, db_ok) ==
  IF ~task_id_valid(params["task_id"])
  THEN Rejected("invalid_input", "task_id", st, nid)
  ELSE IF "title" \in DOMAIN params /\ ~title_valid(params["title"])
  THEN Rejected("invalid_input", "title", st, nid)
  ELSE IF Get(params, "priority", "P3") \notin VALID_PRIORITIES
  THEN Rejected("invalid_priority", "priority", st, nid)
  ELSE IF ~has_update_fields(params)
  THEN Rejected("invalid_input", "none", st, nid)
  ELSE IF ~db_ok
  THEN Caught("db", st, nid, FALSE, <<Opened>>)
  ELSE LET Found(task) ==
             IF task = 0
             THEN Answered(ToolResponse_fail("not_found", [task_id |-> params["task_id"]]),
                           st, nid, FALSE, <<Opened>>)
             ELSE LET Updated(row, task_data) ==
                        IF task_data.raised
                        THEN Caught("TypeError", [st EXCEPT ![task] = row], nid, TRUE,
                                    <<Opened, Committed(task, user_id_int)>>)
                        ELSE Answered(ToolResponse_ok(task_data.data),
                                      [st EXCEPT ![task] = row], nid, TRUE,
                                      <<Opened, Committed(task, user_id_int),
                                        emit_event("task.updated", user_id_int, task)>>)
                      Written(row) ==
                        Updated(row, TaskData_from_task(row, task, params["user_id"],
                                                        FromTaskCall))
                  IN  Written(crud_update(st[task],
                                IF "title" \in DOMAIN params
                                THEN [params EXCEPT !["title"] = Strip(@)] ELSE params))
       IN  Found(get_task_by_id_and_user(st, ParseInt(params["task_id"]), user_id_int))

ToolNames == {"add_task", "list_tasks", "complete_task", "delete_task", "update_task"}

\* mcp/server.py invoke_tool / MCPToolServer.call: TOOL_HANDLERS[tool_name](...)
invoke_tool(tool_name, params, user_id_int, st, nid, db_ok) ==
  CASE tool_name = "add_task"      -> add_task(params, user_id_int, st, nid, db_ok)
    [] tool_name = "list_tasks"    -> list_tasks(params, user_id_int, st, nid, db_ok)
    [] tool_name = "complete_task" -> complete_task(params, user_id_int, st, nid, db_ok)
    [] tool_name = "delete_task"   -> delete_task(params, user_id_int, st, nid, db_ok)
    [] tool_name = "update_task"   -> update_task(params, user_id_int, st, nid, db_ok)

(***************************************************************************)
(* The test double of tests/agent/conftest.py: fixed answers, no store     *)
(***************************************************************************)
MockTasks ==
  << [id |-> 1, title |-> <<66,117,121,32,109,105,108,107>> (* "Buy milk" *), completed |-> FALSE, priority |-> "Medium"],
     [id |-> 2, title |-> <<67,97,108,108,32,109,111,109>> (* "Call mom" *), completed |-> FALSE, priority |-> "High"],
     [id |-> 3, title |-> <<66,117,121,32,103,114,111,99,101,114,105,101,115>> (* "Buy groceries" *), completed |-> TRUE, priority |-> "Low"] >>

mock_mcp_server(tool, params, user_id_int) ==
  CASE tool = "add_task" ->
         [success |-> TRUE,
          data |-> [id |-> 1, user_id |-> IntToStr(user_id_int),
                    title |-> Get(params, "title", <<84,101,115,116,32,84,97,115,107>> (* "Test Task" *)),
                    completed |-> FALSE, priority |-> Get(params, "priority", "Medium")]]
    [] tool = "list_tasks" ->
         [success |-> TRUE, data |-> [tasks |-> MockTasks, total |-> 3]]
    [] tool = "complete_task" ->
         [success |-> TRUE,
          data |-> [id |-> ParseInt(Get(params, "task_id", <<49>> (* "1" *))),
                    title |-> <<66,117,121,32,109,105,108,107>> (* "Buy milk" *), completed |-> TRUE]]
    [] tool = "delete_task" ->
         [success |-> TRUE, data |-> [deleted |-> TRUE, task_id |-> params["task_id"]]]
    [] tool = "update_task" ->
         [success |-> TRUE,
          data |-> [id |-> ParseInt(Get(params, "task_id", <<49>> (* "1" *))),
                    title |-> Get(params, "title", <<85,112,100,97,116,101,100,32,84,97,115,107>> (* "Updated Task" *)),
                    priority |-> Get(params, "priority", "Medium")]]

(***************************************************************************)
(* Response templater  (agent/handlers/response.py, agent/errors.py,       *)
(* agent/templates/confirmations.py).  A rendered text is identified by    *)
(* the table it comes from, its key, its language and the values           *)
(* interpolated into it.                                                   *)
(***************************************************************************)
Languages == {"en", "ur", "roman_ur"}

Response(table, key, lang, titles, detail) ==
  [table |-> table, key |-> key, lang |-> lang, titles |-> titles, detail |-> detail]

\* get_template(template_type, lang, title=...)
get_template(template_type, lang, titles) ==
  Response("ALL_TEMPLATES", template_type, IF lang \in Languages THEN lang ELSE "en",
           titles, "")

ERROR_MESSAGES == {"not_found", "validation_error", "database_error", "timeout", "unknown"}

\* to_friendly_message(error_code, lang, context)
to_friendly_message(error_code, lang) ==
  Response("ERROR_MESSAGES", IF error_code \in ERROR_MESSAGES THEN error_code ELSE "unknown",
           IF lang \in Languages THEN lang ELSE "en", <<>>, "")

\* format_error(error_code, lang=lang)
format_error(error_code, lang) ==
  IF error_code = "not_found" THEN get_template("task_not_found", lang, <<>>)
  ELSE to_friendly_message(error_code, lang)

EmptyText == Response("", "", "en", <<>>, "")

HasError(tool_response) ==
  "error" \in DOMAIN tool_response /\ tool_response.error # NoError

\* map_tool_error(tool_response, lang)
map_tool_error(tool_response, lang) ==
  IF ~HasError(tool_response) THEN EmptyText
  ELSE to_friendly_message(tool_response.error.code, lang)

Titles(tasks) == [i \in 1..Len(tasks) |-> tasks[i].title]

format_task_created(task_data, lang) == get_template("task_created", lang, <<task_data.title>>)

format_task_list(tasks_data, lang) ==
  IF tasks_data.tasks = <<>> THEN get_template("task_empty_list", lang, <<>>)
  ELSE get_template("task_listed", lang, Titles(tasks_data.tasks))

format_task_completed(task_data, lang) ==
  get_template("task_completed", lang, <<task_data.title>>)

format_task_deleted(task_data, lang) == get_template("task_deleted", lang, <<task_data.title>>)

format_task_updated(task_data, changes, lang) ==
  [get_template("task_updated", lang, <<task_data.title>>)
     EXCEPT !.detail = Get(changes, "priority", "")]

format_ambiguous(matching_tasks, lang) ==
  get_template("ambiguous_request", lang, Titles(matching_tasks))

format_delete_confirmation(title, lang) == get_template("delete_confirmation", lang, <<title>>)

format_greeting(lang) == get_template("greeting", lang, <<>>)

\* faulty variant of format_thanks: the greeting is used for thanks
ThanksAsGreeting(lang) == get_template("greeting", lang, <<>>)

format_thanks(lang) == get_template("thanks", lang, <<>>)

\* the reply that DELETE_CONFIRMATION_TEMPLATES[lang] asks the user to write
DELETE_CONFIRMATION_REPLY(lang) ==
  CASE lang = "en" -> <<121,101,115,32,100,101,108,101,116,101>> (* "yes delete" *)
    [] lang = "ur" -> <<1729,1575,1722,32,1581,1584,1601>> (* "\u06c1\u0627\u06ba \u062d\u0630\u0641" *)
    [] OTHER -> <<104,97,97,110,32,100,101,108,101,116,101>> (* "haan delete" *)

\* the texts written inline in runner.py (fallback, cancel_msg, the add prompt)
Inline(key, lang) == Response("runner", key, IF lang \in Languages THEN lang ELSE "en", <<>>, "")

(***************************************************************************)
(* Agent Runner  (agent/runner.py)                                         *)
(***************************************************************************)
\* faulty variant of AgentResult: every result is tagged English
AgentResultEn(success, response, calls, error, language) ==
  [success |-> success, response |-> response, tool_calls |-> calls,
   error |-> error, language |-> "en"]

AgentResult(success, response, calls, error, language) ==
  [success |-> success, response |-> response, tool_calls |-> calls,
   error |-> error, language |-> language]

NoResult == AgentResult(FALSE, EmptyText, <<>>, "", "")

NoPending == [task |-> NoTask, user_id |-> NoText, lang |-> ""]

\* run(): except asyncio.TimeoutError
TimeoutResult(msg, calls) ==
  LET In(lang) == AgentResult(FALSE, format_error("timeout", lang), calls, "timeout", lang)
  IN  In(detect_language(msg))

\* faulty variant of ExceptionResult: the user is shown str(e)
ExceptionTextResult(msg, calls, e) ==
  LET In(lang) == AgentResult(FALSE, Response("exception", e, lang, <<>>, ""), calls, e, lang)
  IN  In(detect_language(msg))

\* run(): except Exception as e    (error = str(e), never shown to the user)
ExceptionResult(msg, calls, e) ==
  LET In(lang) == AgentResult(FALSE, format_error("unknown", lang), calls, e, lang)
  IN  In(detect_language(msg))

AddKeywords ==
  { <<97,100,100>> (* "add" *), <<99,114,101,97,116,101>> (* "create" *), <<110,101,119,32,116,97,115,107>> (* "new task" *), <<114,101,109,105,110,100>> (* "remind" *),
    <<115,104,97,109,105,108>> (* "shamil" *), <<98,97,110,97,111>> (* "banao" *), <<110,97,121,97,32,116,97,115,107>> (* "naya task" *), <<116,97,115,107,32,98,97,110,97,111>> (* "task banao" *), <<1588,1575,1605,1604>> (* "\u0634\u0627\u0645\u0644" *), <<1576,1606,1575,1572>> (* "\u0628\u0646\u0627\u0624" *) }

ListKeywords ==
  { <<115,104,111,119>> (* "show" *), <<108,105,115,116>> (* "list" *), <<119,104,97,116>> (* "what" *), <<109,121,32,116,97,115,107>> (* "my task" *), <<116,97,115,107,115>> (* "tasks" *),
    <<100,105,107,104,97,111>> (* "dikhao" *), <<100,105,107,104,97>> (* "dikha" *), <<98,97,116,97,111>> (* "batao" *), <<109,101,114,101,32,116,97,115,107>> (* "mere task" *), <<1601,1729,1585,1587,1578>> (* "\u0641\u06c1\u0631\u0633\u062a" *), <<1583,1705,1726,1575,1572>> (* "\u062f\u06a9\u06be\u0627\u0624" *) }

CompleteKeywords ==
  { <<100,111,110,101>> (* "done" *), <<102,105,110,105,115,104>> (* "finish" *), <<99,111,109,112,108,101,116,101>> (* "complete" *), <<109,97,114,107>> (* "mark" *),
    <<109,117,107,97,109,109,97,108>> (* "mukammal" *), <<104,111,32,103,97,121,97>> (* "ho gaya" *), <<1605,1705,1605,1604>> (* "\u0645\u06a9\u0645\u0644" *) }

DeleteKeywords ==
  { <<100,101,108,101,116,101>> (* "delete" *), <<114,101,109,111,118,101>> (* "remove" *), <<99,97,110,99,101,108>> (* "cancel" *),
    <<104,97,116,97>> (* "hata" *), <<104,97,116,97,111>> (* "hatao" *), <<109,105,116,97>> (* "mita" *), <<109,105,116,97,111>> (* "mitao" *), <<1581,1584,1601>> (* "\u062d\u0630\u0641" *), <<1729,1657,1575,1572>> (* "\u06c1\u0679\u0627\u0624" *) }

UpdateKeywords ==
  { <<117,112,100,97,116,101>> (* "update" *), <<99,104,97,110,103,101>> (* "change" *), <<114,101,110,97,109,101>> (* "rename" *), <<109,111,100,105,102,121>> (* "modify" *), <<101,100,105,116>> (* "edit" *),
    <<98,97,100,108,111>> (* "badlo" *), <<116,97,98,100,101,101,108>> (* "tabdeel" *), <<1578,1576,1583,1740,1604>> (* "\u062a\u0628\u062f\u06cc\u0644" *), <<1576,1583,1604,1608>> (* "\u0628\u062f\u0644\u0648" *) }

AnyKeyword(msg_lower, kws) == \E kw \in kws : Contains(msg_lower, kw)

\* _process_message: the keyword routing, in declaration order
\* faulty variant of Route: the intents are tried in the reverse order
RouteReversed(msg) ==
  LET Intent(msg_lower) ==
        IF AnyKeyword(msg_lower, UpdateKeywords) THEN "update"
        ELSE IF AnyKeyword(msg_lower, DeleteKeywords) THEN "delete"
        ELSE IF AnyKeyword(msg_lower, CompleteKeywords) THEN "complete"
        ELSE IF AnyKeyword(msg_lower, ListKeywords) THEN "list"
        ELSE IF AnyKeyword(msg_lower, AddKeywords) THEN "add"
        ELSE "none"
  IN  Intent(Lower(msg))

Route(msg) ==
  LET Intent(msg_lower) ==
        IF AnyKeyword(msg_lower, AddKeywords) THEN "add"
        ELSE IF AnyKeyword(msg_lower, ListKeywords) THEN "list"
        ELSE IF AnyKeyword(msg_lower, CompleteKeywords) THEN "complete"
        ELSE IF AnyKeyword(msg_lower, DeleteKeywords) THEN "delete"
        ELSE IF AnyKeyword(msg_lower, UpdateKeywords) THEN "update"
        ELSE "none"
  IN  Intent(Lower(msg))

\* The functions of the message alone that a turn evaluates before its
\* first gateway call, tabulated once for the messages of the model.
OnMessage ==
  [m \in Messages \cup TurnMessages |->
     [lang |-> detect_language(m), greeting |-> is_greeting(m), thanks |-> is_thanks(m),
      confirmation |-> is_confirmation(m), route |-> Route(m), title |-> _extract_title(m),
      task_id |-> extract_task_id(m), reference |-> extract_task_reference(m),
      updates |-> _extract_updates(m)]]

\* _process_message: which branch a turn takes
Branch(ctx_user, msg, pd) ==
  LET Of(om) ==
        IF ParseInt(ctx_user) < 0 THEN "raise"             \* int(context.user_id)
        ELSE IF om.greeting THEN "greeting"
        ELSE IF om.thanks THEN "thanks"
        ELSE IF pd # NoPending THEN "confirm"
        ELSE om.route
  IN  Of(OnMessage[msg])

\* faulty variant of ConfirmDeletes: any reply to the prompt deletes
AnyReplyDeletes(msg) == TRUE

\* _handle_delete_confirmation: TRUE when the turn goes on to call delete_task
ConfirmDeletes(msg) == OnMessage[msg].confirmation

\* faulty variant of Cleared: the slot is left as it is until the call is over
ClearedAfterTheCall(pd) == pd

\* _handle_delete_confirmation: pending = self._pending_delete;
\* self._pending_delete = None, before anything is awaited
Cleared(pd) == NoPending

\* the turn up to its first Tool Gateway call:
\*   kind "return": the turn is over with `result`
\*   kind "raise" : the dispatch raised `exc`
\*   kind "call"  : `handler` is about to call the gateway
\* pd is self._pending_delete after it, pending the local of
\* _handle_delete_confirmation
Start(kind, hd, res, exc, pd, pend) ==
  [kind |-> kind, handler |-> hd, result |-> res, exc |-> exc,
   pending_delete |-> pd, pending |-> pend]

_process_message(ctx_user, msg, pd) ==
  LET Dispatch(branch, lang, title) ==
      CASE branch = "raise" ->
             Start("raise", "", NoResult, "ValueError", pd, NoPending)
        [] branch = "greeting" ->
             Start("return", "", AgentResult(TRUE, format_greeting(lang), <<>>, "", lang),
                   "", pd, NoPending)
        [] branch = "thanks" ->
             Start("return", "", AgentResult(TRUE, format_thanks(lang), <<>>, "", lang),
                   "", pd, NoPending)
        [] branch = "confirm" ->
             IF ConfirmDeletes(msg)
             THEN Start("call", "confirm", NoResult, "", Cleared(pd), pd)
             ELSE Start("return", "",
                        AgentResult(TRUE, Inline("cancel_msg", lang), <<>>, "", lang),
                        "", Cleared(pd), pd)
        [] branch = "add" ->
             IF title = NoText \/ title = <<>>
             THEN Start("return", "",
                        AgentResult(FALSE, Inline("add_prompt", lang), <<>>, "", lang),
                        "", pd, NoPending)
             ELSE Start("call", "add", NoResult, "", pd, NoPending)
        [] branch \in {"list", "complete", "delete", "update"} ->
             Start("call", branch, NoResult, "", pd, NoPending)
        [] OTHER ->
             Start("return", "", AgentResult(TRUE, Inline("fallback", lang), <<>>, "", lang),
                   "", pd, NoPending)
  IN  Dispatch(Branch(ctx_user, msg, pd), OnMessage[msg].lang, OnMessage[msg].title)

Call(tool, params) == [tool |-> tool, params |-> params]

\* the first gateway call of each handler
FirstCall(hd, ctx_user, msg, pend) ==
  CASE hd = "add" ->
         Call("add_task", [user_id |-> ctx_user, title |-> OnMessage[msg].title])
    [] hd = "confirm" ->
         Call("delete_task", [task_id |-> IntToStr(pend.task.id), user_id |-> ctx_user])
    [] OTHER -> Call("list_tasks", [user_id |-> ctx_user])

\* faulty variant of SecondCall: the mutation addresses the task after the
\* matched one
SecondCallNextTask(hd, ctx_user, msg, task) ==
  IF hd = "complete"
  THEN Call("complete_task", [task_id |-> IntToStr(task.id + 2), user_id |-> ctx_user])
  ELSE Call("update_task",
            OnMessage[msg].updates @@ [task_id |-> IntToStr(task.id + 2), user_id |-> ctx_user])

\* the mutation of _handle_complete_task / _handle_update_task
SecondCall(hd, ctx_user, msg, task) ==
  IF hd = "complete"
  THEN Call("complete_task", [task_id |-> IntToStr(task.id), user_id |-> ctx_user])
  ELSE Call("update_task",
            OnMessage[msg].updates @@ [task_id |-> IntToStr(task.id), user_id |-> ctx_user])

\* ID-based lookup first, then the title matcher: <<matched, matches>>
Resolve(msg, tasks) ==
  LET First(task_id, hits) == IF task_id # 0 /\ hits # {} THEN tasks[SetMin(hits)] ELSE NoTask
      ById(task_id) == First(task_id, {i \in 1..Len(tasks) : tasks[i].id = task_id})
      Query(ref) == IF ref = NoText \/ ref = <<>> THEN msg ELSE ref
      Found(byId, ref) ==
        IF byId # NoTask THEN <<byId, <<byId>>>>
        ELSE match_task_by_title(Query(ref), tasks)
      Of(om) == Found(ById(om.task_id), om.reference)
  IN  Of(OnMessage[msg])

\* Resolve, tabulated once for the messages of the model and the task
\* lists its gateways return: the MCPToolServer lists successfully only
\* for a user without tasks, the test double always lists MockTasks.
ListedTasks == {<<>>, MockTasks}

Resolved == [m \in Messages \cup TurnMessages, ts \in ListedTasks |-> Resolve(m, ts)]

\* _call_tool: what the gateway did, as seen by the runner.  `raised`
\* is the except-branch at runner.py:603.
GatewayOutcomes == {"ok", "db_error", "raise"}

\* Every tool of the MCPToolServer catches Exception and answers with an
\* envelope, so its call returns; its session may fail (db_error).  The
\* test double is a MagicMock: it has no store, and a test can make its
\* call raise.
ServerOutcomes(srv) ==
  IF srv = "MCPToolServer" THEN {"ok", "db_error"} ELSE {"ok", "raise"}

\* _call_tool, except Exception as e: result = {"success": False, "error": {...}}
ToolErrorResult == [success |-> FALSE, error |-> [code |-> "tool_error"]]

Gateway(srv, call, uid, st, nid, g) ==
  IF g = "raise"
  THEN ToolOutcome(ToolErrorResult, st, nid, FALSE) @@ [raised |-> TRUE]
  ELSE IF srv = "mock_mcp_server"
  THEN ToolOutcome(mock_mcp_server(call.tool, call.params, uid), st, nid, FALSE)
         @@ [raised |-> FALSE]
  ELSE invoke_tool(call.tool, call.params, uid, st, nid, g = "ok") @@ [raised |-> FALSE]

\* faulty variant of ToolCallRecord: the parameters are echoed as passed
RawToolCallRecord(tool_name, params, res) ==
  [tool_name |-> tool_name, parameters |-> params, result |-> res]

\* ToolCallRecord(tool_name, parameters without user_id, result)
ToolCallRecord(tool_name, params, res) ==
  [tool_name |-> tool_name,
   parameters |-> [k \in DOMAIN params \ {"user_id"} |-> params[k]],
   result |-> res]

\* faulty variant of Recorded: only successful calls are recorded
RecordedOnSuccess(calls, tool_name, params, res) ==
  IF res.success THEN Append(calls, ToolCallRecord(tool_name, params, res)) ELSE calls

\* _call_tool: tool_calls.append(ToolCallRecord(...)), whatever the result
Recorded(calls, tool_name, params, res) ==
  Append(calls, ToolCallRecord(tool_name, params, res))

\* faulty variant of PendingConfirmation: nothing is stored
NothingPending(task, ctx_user, lang) == NoPending

\* _handle_delete_task: self._pending_delete = {"task": ..., "user_id": ..., "lang": ...}
PendingConfirmation(task, ctx_user, lang) ==
  [task |-> task, user_id |-> ctx_user, lang |-> lang]

ErrorCode(res) == IF HasError(res) THEN res.error.code ELSE ""

\* the rest of a handler after its first gateway call returned `res`;
\* calls is tool_calls with the record of that call appended.
\*   kind "return": the turn is over;  kind "call": a mutation follows
Cont(kind, res, task, pd) ==
  [kind |-> kind, result |-> res, matched |-> task, pending_delete |-> pd]

AfterFirstCall(hd, ctx_user, msg, pend, pd, res, calls) ==
  LET After(lang, r) ==
      CASE hd = "add" ->
             Cont("return",
                  IF res.success
                  THEN AgentResult(TRUE, format_task_created(res.data, lang), calls, "", lang)
                  ELSE AgentResult(FALSE, map_tool_error(res, lang), calls, ErrorCode(res), lang),
                  NoTask, pd)
        [] hd = "list" ->
             Cont("return",
                  IF res.success
                  THEN AgentResult(TRUE, format_task_list(res.data, lang), calls, "", lang)
                  ELSE AgentResult(FALSE, map_tool_error(res, lang), calls, ErrorCode(res), lang),
                  NoTask, pd)
        [] hd = "confirm" ->
             Cont("return",
                  IF res.success
                  THEN AgentResult(TRUE, format_task_deleted(pend.task, lang), calls, "", lang)
                  ELSE AgentResult(FALSE, map_tool_error(res, lang), calls, "", lang),
                  NoTask, pd)
        [] OTHER ->
             IF ~res.success
             THEN Cont("return", AgentResult(FALSE, map_tool_error(res, lang), calls, "", lang),
                       NoTask, pd)
             ELSE IF r[2] = <<>>
             THEN Cont("return",
                       AgentResult(FALSE, format_error("not_found", lang), calls, "", lang),
                       NoTask, pd)
             ELSE IF detect_ambiguity(r[2])
             THEN Cont("return",
                       AgentResult(TRUE, format_ambiguous(r[2], lang), calls, "", lang),
                       NoTask, pd)
             ELSE IF hd = "delete"
             THEN Cont("return",
                       AgentResult(TRUE, format_delete_confirmation(r[1].title, lang),
                                   calls, "", lang),
                       NoTask, PendingConfirmation(r[1], ctx_user, lang))
             ELSE Cont("call", NoResult, r[1], pd)
  IN  After(OnMessage[msg].lang, Resolved[msg, res.data.tasks])

\* the end of _handle_complete_task / _handle_update_task
AfterSecondCall(hd, msg, task, res, calls) ==
  LET After(om, lang) ==
        IF ~res.success
        THEN AgentResult(FALSE, map_tool_error(res, lang), calls, "", lang)
        ELSE IF hd = "complete"
        THEN AgentResult(TRUE, format_task_completed(task, lang), calls, "", lang)
        ELSE AgentResult(TRUE, format_task_updated(res.data, om.updates, lang),
                         calls, "", lang)
  IN  After(OnMessage[msg], OnMessage[msg].lang)

(***************************************************************************)
(* State                                                                   *)
(***************************************************************************)
VARIABLES
  server,          \* the mcp_server given to AgentRunner.__init__
  store,           \* Task Store rows
  nextId,          \* next row id of the Task Store
  pending_delete,  \* AgentRunner._pending_delete
  pc,              \* position of the current run(): ready, call1, call2, done
  run_message,         \* run(): message
  run_user_id,         \* run(): context.user_id
  handler,         \* the handler _process_message dispatched to
  pending,         \* _handle_delete_confirmation: pending
  matched,         \* _handle_complete_task / _handle_update_task: matched
  tool_calls,      \* run(): tool_calls
  result,          \* the AgentResult returned by the last run()
  startPending,    \* history: _pending_delete when the current run() began
  callLog,         \* history: the gateway calls of the current run(), in order
  commits,         \* history: the gateway calls of the current run() that committed
  expired,         \* history: TIMEOUT_SECONDS elapsed during the current run()
  direct,          \* the last tool invocation made directly on the MCPToolServer
  matching,        \* the last call of match_task_by_title made on its own
  detecting,       \* the last call of detect_language made on its own
  emitting,        \* the last emit_event call and the publishing it started
  turns,           \* turns in flight on one runner, if turns could interleave
  recurring,       \* the recurring-task consumer: its processed-event cache and what it created
  reminding        \* the reminder check, the events in flight and the notification consumer

vars == <<server, store, nextId, pending_delete, pc, run_message, run_user_id, handler, pending,
          matched, tool_calls, result, startPending, callLog, commits, expired, direct,
          matching, detecting, emitting, turns, recurring, reminding>>

\* repeat: the call repeats the call before it (same tool, parameters and
\* user, the Task Store available to both); changed: the call left the Task
\* Store different from what it found; rewritten: it left it different in
\* more than the updated_at of its rows
NoDirect == [tool |-> "", params |-> <<>>, user_id_int |-> 0, db_ok |-> TRUE,
             response |-> NoData, committed |-> FALSE, before |-> NoRow,
             effects |-> <<>>, failure |-> "", escaped |-> FALSE,
             repeat |-> FALSE, changed |-> FALSE, rewritten |-> FALSE]

\* a call of the matcher about to be made
Asked(query, tasks) ==
  [query |-> query, tasks |-> tasks, called |-> FALSE, matched_task |-> NoTask,
   all_matching_tasks |-> <<>>, ambiguous |-> FALSE]

NoMatching == Asked(NoText, <<>>)

\* a call of the detector about to be made
Heard(message) == [message |-> message, called |-> FALSE, language |-> "", repeated |-> ""]

NoDetecting == Heard(NoText)

\* faulty variant of NewToolCalls: the list of the previous turn is reused
KeptToolCalls == tool_calls

\* run(): tool_calls: List[ToolCallRecord] = []
NewToolCalls == <<>>

(***************************************************************************)
(* Event emitter  (events/emitter.py).  A publishing is split at its       *)
(* awaits: transport.publish and asyncio.sleep.                            *)
(***************************************************************************)
MAX_RETRIES == 3

\* transport.publish returned True, returned False, or raised
TransportOutcomes == {"published", "refused", "raised"}

NoEvent == [event_type |-> "", user_id |-> 0, task_id |-> 0]

\* at: idle, publish (about to await transport.publish), sleep (about to
\* await asyncio.sleep), done.  steps: the awaits made so far, in order.
\* returned: emit_event has returned to the tool.  raised: it raised.
NoEmitting ==
  [event |-> NoEvent, running_loop |-> FALSE, at |-> "idle", attempt |-> 0, steps |-> <<>>,
   returned |-> FALSE, raised |-> FALSE, swallowed |-> FALSE, gave_up |-> FALSE]

\* emit_event up to its return (a running loop: loop.create_task) or up to
\* the first await of asyncio.run(_publish_with_retry(...)).  built: the
\* TaskEvent and its dict could be made; when not, the outer except
\* swallows the exception.
EmitStarted(event, running_loop, built) ==
  IF ~built
  THEN [NoEmitting EXCEPT !.event = event, !.running_loop = running_loop, !.at = "done",
                          !.returned = TRUE, !.swallowed = TRUE]
  ELSE [NoEmitting EXCEPT !.event = event, !.running_loop = running_loop, !.at = "publish",
                          !.attempt = 1, !.returned = running_loop]

Await(what, attempt, outcome) == [step |-> what, attempt |-> attempt, outcome |-> outcome]

\* faulty variant of _publish_with_retry: a successful attempt does not end the loop
_publish_with_retry_through(e, outcome) ==
  IF e.attempt < MAX_RETRIES
  THEN [e EXCEPT !.steps = Append(@, Await("publish", e.attempt, outcome)), !.at = "sleep"]
  ELSE [e EXCEPT !.steps = Append(@, Await("publish", e.attempt, outcome)), !.at = "done",
                 !.returned = TRUE, !.gave_up = (outcome # "published")]

\* _publish_with_retry: one pass of the loop body, from the await of
\* transport.publish to the return, to the sleep, or to the end of the loop
_publish_with_retry(e, outcome) ==
  IF outcome = "published"
  THEN [e EXCEPT !.steps = Append(@, Await("publish", e.attempt, outcome)), !.at = "done",
                 !.returned = TRUE]
  ELSE IF e.attempt < MAX_RETRIES
  THEN [e EXCEPT !.steps = Append(@, Await("publish", e.attempt, outcome)), !.at = "sleep"]
  ELSE [e EXCEPT !.steps = Append(@, Await("publish", e.attempt, outcome)), !.at = "done",
                 !.returned = TRUE, !.gave_up = TRUE]

\* await asyncio.sleep(0.5 * attempt), then the next pass of the loop
Slept(e) ==
  [e EXCEPT !.steps = Append(@, Await("sleep", e.attempt, "")), !.attempt = @ + 1,
            !.at = "publish"]

(***************************************************************************)
(* Turns in flight.  run() is a coroutine; were the gateway call awaited,  *)
(* a second run() on the same runner could begin while the first is        *)
(* suspended in it.  A turn in flight keeps its locals; _pending_delete,   *)
(* the gateway and the Task Store are shared.                              *)
(***************************************************************************)
MaxConcurrent == 2   \* turns in flight at a time

MaxStarted == 3      \* turns begun on the runner

\* the locals of a run() suspended at its first (call1) or second (call2)
\* gateway call
Turn(at, msg, ctx_user, hd, pend, task, calls) ==
  [at |-> at, message |-> msg, user_id |-> ctx_user, handler |-> hd, pending |-> pend,
   matched |-> task, tool_calls |-> calls]

NoTurn == Turn("idle", NoText, NoText, "", NoPending, NoTask, <<>>)

\* stores: assignments of a confirmation to _pending_delete so far;
\* deletes: delete_task calls begun so far
NoTurns ==
  [slots |-> [i \in 1..MaxConcurrent |-> NoTurn], started |-> 0, stores |-> 0, deletes |-> 0]

(***************************************************************************)
(* Recurring Task Consumer  (consumers/recurring.py)                       *)
(***************************************************************************)
MAX_PROCESSED_CACHE == 10000

MaxDeliveries == 4   \* deliveries of task events to the consumer

\* the ids of the task events that are followed; the consumer has seen
\* events with other ids before
EventIds == {"e1", "e2", "e3", "e4", "e5"}

\* the module after import.  engine: DATABASE_URL is configured;
\* processed: the followed ids in _processed_events; others: the number
\* of other ids in _processed_events; created: the next-occurrence tasks
\* committed so far for each followed event; status: the last answer
Consumer(engine, others) ==
  [up |-> TRUE, engine |-> engine, processed |-> {}, others |-> others,
   created |-> [e \in EventIds |-> 0], status |-> "", event_id |-> "", deliveries |-> 0]

NoRecurring == [Consumer(FALSE, 0) EXCEPT !.up = FALSE]

\* return {"status": status}
Returned(c, event_id, status) == [c EXCEPT !.status = status, !.event_id = event_id]

\* _processed_events.add(event_id); if len(_processed_events) >
\* MAX_PROCESSED_CACHE: _processed_events.clear()
Processed(c, event_id) ==
  IF Cardinality(c.processed \cup {event_id}) + c.others > MAX_PROCESSED_CACHE
  THEN [c EXCEPT !.processed = {}, !.others = 0]
  ELSE [c EXCEPT !.processed = @ \cup {event_id}]

\* session.add(new_task); session.commit()
NextOccurrence(c, event_id) == [c EXCEPT !.created[event_id] = @ + 1]

\* handle_task_event for the event in the request body, the database
\* answering db
handle_task_event(c, data, db) ==
  IF data.event_id \in c.processed THEN Returned(c, data.event_id, "DUPLICATE")
  ELSE IF data.event_type # "task.completed" THEN Returned(c, data.event_id, "IGNORED")
  ELSE IF data.recurrence_rule = "" THEN Returned(c, data.event_id, "NO_RECURRENCE")
  ELSE IF data.recurrence_depth >= 1000 THEN Returned(c, data.event_id, "MAX_DEPTH")
  ELSE IF ~c.engine THEN Returned(c, data.event_id, "ERROR")
  ELSE IF db = "raised" THEN Returned(c, data.event_id, "ERROR")
  ELSE IF db = "not_found" THEN Returned(c, data.event_id, "NOT_FOUND")
  ELSE Returned(Processed(NextOccurrence(c, data.event_id), data.event_id),
                data.event_id, "SUCCESS")

(***************************************************************************)
(* Reminder check and Notification Consumer                                *)
(* (api/tasks.py check_reminders, consumers/notification.py)               *)
(***************************************************************************)
MaxReminders == 2    \* tasks with a reminder

MaxChecks == 2       \* calls of check_reminders

\* ReminderEvent(event_type="reminder.due", task_id=task.id, ...) on the
\* reminders topic.  in_flight: Dapr has it to deliver; status: the last
\* answer of the consumer to it; successes: its SUCCESS answers so far
ReminderEvent(task_id) ==
  [event_type |-> "reminder.due", task_id |-> task_id, in_flight |-> TRUE, status |-> "",
   successes |-> 0]

\* The database, the API process and the consumer process.  engine:
\* DATABASE_URL is configured for the consumer; due: the tasks whose
\* remind_at has passed; reminder_sent: the committed Task.reminder_sent;
\* at, tasks, session: where check_reminders is, the due tasks it has yet
\* to publish for and the tasks it has set reminder_sent on without a
\* commit; events: the published events, an event's place being its
\* event_id; processed: the consumer's _processed_events
Reminding(engine, due) ==
  [up |-> TRUE, engine |-> engine, due |-> due,
   reminder_sent |-> [t \in 1..MaxReminders |-> FALSE],
   at |-> "idle", tasks |-> <<>>, session |-> {}, checks |-> 0,
   events |-> <<>>, processed |-> {}]

NoReminding == [Reminding(FALSE, {}) EXCEPT !.up = FALSE]

RECURSIVE DueUnsent(_, _)
\* check_reminders: the select, then the tasks of the loop that pass
\* now >= remind_at, in the order of their ids
DueUnsent(c, t) ==
  IF t > MaxReminders THEN <<>>
  ELSE IF ~c.reminder_sent[t] /\ t \in c.due THEN <<t>> \o DueUnsent(c, t + 1)
  ELSE DueUnsent(c, t + 1)

\* check_reminders up to its first await, or to its return when sent = 0
check_reminders(c) ==
  [c EXCEPT !.checks = @ + 1,
            !.tasks = DueUnsent(c, 1),
            !.session = {},
            !.at = IF DueUnsent(c, 1) = <<>> THEN "idle" ELSE "publish"]

\* await transport.publish("reminders", event.to_dict()), its answer
\* dropped; task.reminder_sent = True; session.add(task); sent += 1
Published(c, outcome) ==
  [c EXCEPT !.events = IF outcome = "published" THEN Append(@, ReminderEvent(Head(c.tasks)))
                       ELSE @,
            !.session = @ \cup {Head(c.tasks)},
            !.tasks = Tail(@),
            !.at = IF Tail(c.tasks) = <<>> THEN "commit" ELSE "publish"]

\* if sent > 0: session.commit()
SessionCommitted(c) ==
  [c EXCEPT !.reminder_sent = [t \in 1..MaxReminders |-> @[t] \/ t \in c.session],
            !.session = {},
            !.at = "idle"]

\* return {"status": status}; Dapr delivers the event again unless it was
\* answered SUCCESS or DUPLICATE, and may deliver it again even then
Handled(c, event_id, status, again) ==
  [c EXCEPT !.events[event_id].status = status,
            !.events[event_id].successes = IF status = "SUCCESS" THEN @ + 1 ELSE @,
            !.events[event_id].in_flight = status \notin {"SUCCESS", "DUPLICATE"} \/ again]

\* task.reminder_sent = True; session.add(task); session.commit();
\* _processed_events.add(event_id); if len(_processed_events) >
\* MAX_PROCESSED_CACHE: _processed_events.clear()
Delivered(c, event_id) ==
  [c EXCEPT !.reminder_sent[c.events[event_id].task_id] = TRUE,
            !.processed = IF Cardinality(@ \cup {event_id}) > MAX_PROCESSED_CACHE THEN {}
                          ELSE @ \cup {event_id}]

\* handle_reminder_event for the event event_id, the database answering db
handle_reminder_event(c, event_id, db, again) ==
  IF event_id \in c.processed THEN Handled(c, event_id, "DUPLICATE", again)
  ELSE IF c.events[event_id].event_type # "reminder.due"
    THEN Handled(c, event_id, "IGNORED", again)
  ELSE IF ~c.engine THEN Handled(c, event_id, "ERROR", again)
  ELSE IF db = "raised" THEN Handled(c, event_id, "ERROR", again)
  ELSE IF db = "not_found" THEN Handled(c, event_id, "NOT_FOUND", again)
  ELSE IF c.reminder_sent[c.events[event_id].task_id]
    THEN Handled(c, event_id, "ALREADY_SENT", again)
  ELSE Handled(Delivered(c, event_id), event_id, "SUCCESS", again)

\* the runner, its gateway and its Task Store after construction
Constructed ==
  /\ server \in {"MCPToolServer", "mock_mcp_server"}
  /\ store = [i \in 1..MaxTasks |-> NoRow]
  /\ nextId = 1
  /\ pending_delete = NoPending
  /\ pc = "ready"
  /\ run_message = NoText
  /\ run_user_id = NoText
  /\ handler = ""
  /\ pending = NoPending
  /\ matched = NoTask
  /\ tool_calls = <<>>
  /\ result = NoResult
  /\ startPending = NoPending
  /\ callLog = <<>>
  /\ commits = <<>>
  /\ expired = FALSE
  /\ direct = NoDirect

Init ==
  /\ Constructed
  /\ matching = NoMatching
  /\ detecting = NoDetecting
  /\ emitting = NoEmitting
  /\ turns = NoTurns
  /\ recurring = NoRecurring
  /\ reminding = NoReminding

(***************************************************************************)
(* AgentRunner.run.  asyncio.wait_for can cancel the dispatch only while   *)
(* it is suspended in the event loop.  Every await of _process_message     *)
(* awaits a coroutine of the runner itself and _call_tool calls            *)
(* self._mcp_server.call(...) synchronously (runner.py:602), so the        *)
(* dispatch never suspends: it runs to its return or to its exception,     *)
(* however long the gateway takes, and wait_for then hands that outcome    *)
(* on.  A turn is split here at its gateway calls only.                    *)
(*                                                                         *)
(* \E x \in {e} : ... names the value e once for the conjuncts below it.   *)
(***************************************************************************)
\* run(context, message) up to the first gateway call
Run(ctx_user, msg) ==
  /\ pc \in {"ready", "done"}
  /\ \E s \in {_process_message(ctx_user, msg, pending_delete)} :
      /\ run_message' = msg
      /\ run_user_id' = ctx_user
      /\ startPending' = pending_delete
      /\ tool_calls' = NewToolCalls
      /\ callLog' = <<>>
      /\ commits' = <<>>
      /\ expired' = FALSE
      /\ handler' = s.handler
      /\ pending' = s.pending
      /\ pending_delete' = s.pending_delete
      /\ matched' = NoTask
      /\ pc' = IF s.kind = "call" THEN "call1" ELSE "done"
      /\ result' = CASE s.kind = "return" -> s.result
                     [] s.kind = "raise" -> ExceptionResult(msg, <<>>, s.exc)
                     [] OTHER -> result
      /\ UNCHANGED <<server, store, nextId, direct, matching, detecting, emitting, turns, recurring, reminding>>

\* _call_tool on the first call of the handler, then the handler up to
\* its return or to its second call.  slow: the call outlasts the deadline.
CallFirst(g, slow) ==
  /\ pc = "call1"
  /\ g \in ServerOutcomes(server)
  /\ \E call \in {FirstCall(handler, run_user_id, run_message, pending)} :
     /\ (server = "MCPToolServer" /\ call.tool = "add_task" /\ g = "ok") => nextId <= MaxTasks
     /\ \E out \in {Gateway(server, call, ParseInt(run_user_id), store, nextId, g)} :
        \E calls \in {Recorded(tool_calls, call.tool, call.params, out.resp)} :
        \E c \in {AfterFirstCall(handler, run_user_id, run_message, pending, pending_delete,
                                 out.resp, calls)} :
      /\ \A i \in DOMAIN out.store : out.store[i].updated_at <= MaxStamp
      /\ store' = out.store
      /\ nextId' = out.nextId
      /\ tool_calls' = calls
      /\ callLog' = Append(callLog, [tool |-> call.tool, params |-> call.params, outcome |-> g])
      /\ commits' = IF out.committed THEN Append(commits, call) ELSE commits
      /\ expired' = (expired \/ slow)
      /\ pending_delete' = c.pending_delete
      /\ matched' = c.matched
      /\ pc' = IF c.kind = "call" THEN "call2" ELSE "done"
      /\ result' = IF c.kind = "call" THEN result ELSE c.result
      /\ UNCHANGED <<server, run_message, run_user_id, handler, pending, startPending, direct,
                     matching, detecting, emitting, turns, recurring, reminding>>

\* _call_tool on complete_task / update_task, then the return of the handler
CallSecond(g, slow) ==
  /\ pc = "call2"
  /\ g \in ServerOutcomes(server)
  /\ \E call \in {SecondCall(handler, run_user_id, run_message, matched)} :
     \E out \in {Gateway(server, call, ParseInt(run_user_id), store, nextId, g)} :
     \E calls \in {Recorded(tool_calls, call.tool, call.params, out.resp)} :
      /\ \A i \in DOMAIN out.store : out.store[i].updated_at <= MaxStamp
      /\ store' = out.store
      /\ nextId' = out.nextId
      /\ tool_calls' = calls
      /\ callLog' = Append(callLog, [tool |-> call.tool, params |-> call.params, outcome |-> g])
      /\ commits' = IF out.committed THEN Append(commits, call) ELSE commits
      /\ expired' = (expired \/ slow)
      /\ pc' = "done"
      /\ result' = AfterSecondCall(handler, run_message, matched, out.resp, calls)
      /\ UNCHANGED <<server, pending_delete, run_message, run_user_id, handler, pending, matched,
                     startPending, direct, matching, detecting, emitting, turns, recurring,
                     reminding>>

(***************************************************************************)
(* Direct use of the Tool Gateway (MCPToolServer.call by any client)       *)
(***************************************************************************)
DirectUsers == {1, 2}

DirectTitles == { <<66,117,121,32,109,105,108,107>> (* "Buy milk" *), <<32>> (* " " *) }

DirectTaskIds == { <<49>> (* "1" *), <<50>> (* "2" *), <<120>> (* "x" *) }

DirectUpdates ==
  { <<>>, [title |-> <<67,97,108,108,32,109,111,109>> (* "Call mom" *)], [priority |-> "High"] }

\* the row a call addresses by its task_id, as it is before the call
Addressed(params, st) ==
  IF "task_id" \in DOMAIN params /\ ParseInt(params["task_id"]) \in DOMAIN st
  THEN st[ParseInt(params["task_id"])] ELSE NoRow

\* the rows without their updated_at
Unstamped(st) == [i \in DOMAIN st |-> [st[i] EXCEPT !.updated_at = 0]]

Invoke(tool, params, uid, db_ok) ==
  /\ server = "MCPToolServer"
  /\ pc = "ready"
  /\ tool = "add_task" => nextId <= MaxTasks
  /\ \E out \in {invoke_tool(tool, params, uid, store, nextId, db_ok)} :
      /\ \A i \in DOMAIN out.store : out.store[i].updated_at <= MaxStamp
      /\ store' = out.store
      /\ nextId' = out.nextId
      /\ direct' = [tool |-> tool, params |-> params, user_id_int |-> uid, db_ok |-> db_ok,
                    response |-> out.resp, committed |-> out.committed,
                    before |-> Addressed(params, store),
                    effects |-> out.effects, failure |-> out.failure,
                    escaped |-> out.escaped,
                    repeat |-> /\ direct.tool = tool
                               /\ direct.params = params
                               /\ direct.user_id_int = uid
                               /\ direct.db_ok
                               /\ db_ok,
                    changed |-> out.store # store \/ out.nextId # nextId,
                    rewritten |-> \/ Unstamped(out.store) # Unstamped(store)
                                  \/ out.nextId # nextId]
      /\ UNCHANGED <<server, pending_delete, pc, run_message, run_user_id, handler, pending, matched,
                     tool_calls, result, startPending, callLog, commits, expired, matching,
                     detecting, emitting, turns, recurring, reminding>>

\* get_session() raises before a tool looks at anything but the validity of
\* its parameters (add_task.py:50 and alike): a Task Store that is down is
\* drawn for one valid call of each tool and user.
InvokeAdd ==
  \E uid \in DirectUsers, t \in DirectTitles, db_ok \in BOOLEAN :
    /\ db_ok \/ t = <<66,117,121,32,109,105,108,107>> (* "Buy milk" *)
    /\ Invoke("add_task", [user_id |-> IntToStr(uid), title |-> t], uid, db_ok)

InvokeList ==
  \E uid \in DirectUsers, db_ok \in BOOLEAN :
    Invoke("list_tasks", [user_id |-> IntToStr(uid)], uid, db_ok)

InvokeComplete ==
  \E uid \in DirectUsers, id \in DirectTaskIds, db_ok \in BOOLEAN :
    /\ db_ok \/ id = <<49>> (* "1" *)
    /\ Invoke("complete_task", [task_id |-> id, user_id |-> IntToStr(uid)], uid, db_ok)

InvokeDelete ==
  \E uid \in DirectUsers, id \in DirectTaskIds, db_ok \in BOOLEAN :
    /\ db_ok \/ id = <<49>> (* "1" *)
    /\ Invoke("delete_task", [task_id |-> id, user_id |-> IntToStr(uid)], uid, db_ok)

InvokeUpdate ==
  \E uid \in DirectUsers, id \in DirectTaskIds, u \in DirectUpdates, db_ok \in BOOLEAN :
    /\ db_ok \/ (id = <<49>> (* "1" *) /\ u = [title |-> <<67,97,108,108,32,109,111,109>> (* "Call mom" *)])
    /\ Invoke("update_task", u @@ [task_id |-> id, user_id |-> IntToStr(uid)], uid, db_ok)

(***************************************************************************)
(* match_task_by_title called on its own (agent/handlers/intent.py)        *)
(***************************************************************************)
MatchTitles == { <<66,117,121,32,109,105,108,107>> (* "Buy milk" *), <<66,117,121,32,109,105,108,107,32,110,111,119>> (* "Buy milk now" *), <<77,105,108,107,32,116,104,101,32,99,111,119>> (* "Milk the cow" *), <<67,97,108,108,32,109,111,109>> (* "Call mom" *) }

MatchQueries == { <<98,117,121,32,109,105,108,107>> (* "buy milk" *), <<66,85,89,32,77,73,76,75,32,78,79,87>> (* "BUY MILK NOW" *), <<32,66,117,121,32,77,105,108,107,32>> (* " Buy Milk " *), <<109,105,108,107>> (* "milk" *), <<99,97,108,108,32,100,97,100>> (* "call dad" *), <<120,121,122>> (* "xyz" *), <<32>> (* " " *), <<>> }

MaxListed == 3    \* tasks in the list handed to the matcher

\* the lists of at most MaxListed tasks with these titles, ids in list order
MatchLists ==
  UNION {[1..n -> MatchTitles] : n \in 0..MaxListed}

Listed(titles) ==
  [i \in 1..Len(titles) |->
     [id |-> i, title |-> titles[i], completed |-> FALSE, priority |-> "Medium"]]

\* the matcher is handed a query and a list
MatchInit ==
  /\ Constructed
  /\ matching \in {Asked(q, Listed(titles)) : q \in MatchQueries, titles \in MatchLists}
  /\ detecting = NoDetecting
  /\ emitting = NoEmitting
  /\ turns = NoTurns
  /\ recurring = NoRecurring
  /\ reminding = NoReminding

\* match_task_by_title(query, tasks), then detect_ambiguity(matches)
Match ==
  \E r \in {match_task_by_title(matching.query, matching.tasks)} :
    /\ matching # NoMatching
    /\ ~matching.called
    /\ matching' = [matching EXCEPT !.called = TRUE, !.matched_task = r[1],
                                    !.all_matching_tasks = r[2],
                                    !.ambiguous = detect_ambiguity(r[2])]
    /\ UNCHANGED <<server, store, nextId, pending_delete, pc, run_message, run_user_id, handler,
                   pending, matched, tool_calls, result, startPending, callLog, commits,
                   expired, direct, detecting, emitting, turns, recurring, reminding>>

(***************************************************************************)
(* detect_language called on its own (agent/handlers/language.py)          *)
(***************************************************************************)
\* words of the three languages, a word in Arabic presentation forms, a
\* letter, and a run of whitespace
DetectWords ==
  { <<104,97,97,110>> (* "haan" *), <<78,97,104,105>> (* "Nahi" *), <<107,97,114,111>> (* "karo" *), <<104,101,108,108,111>> (* "hello" *), <<1729,1575,1722>> (* "\u06c1\u0627\u06ba" *), <<64394,65259>> (* "\ufb8a\ufeeb" *), <<120>> (* "x" *), <<32>> (* " " *) }

MaxWords == 3     \* words in a message handed to the detector

\* the messages of at most MaxWords of these words, joined by blanks
DetectMessages ==
  {Join(ws) : ws \in UNION {[1..n -> DetectWords] : n \in 0..MaxWords}}

\* the detector is handed a message
DetectInit ==
  /\ Constructed
  /\ matching = NoMatching
  /\ detecting \in {Heard(message) : message \in DetectMessages}
  /\ emitting = NoEmitting
  /\ turns = NoTurns
  /\ recurring = NoRecurring
  /\ reminding = NoReminding

\* two calls of detect_language on the same message
Detect ==
  /\ detecting # NoDetecting
  /\ ~detecting.called
  /\ detecting' = [detecting EXCEPT !.called = TRUE,
                                    !.language = detect_language(detecting.message),
                                    !.repeated = detect_language(detecting.message)]
  /\ UNCHANGED <<server, store, nextId, pending_delete, pc, run_message, run_user_id, handler,
                 pending, matched, tool_calls, result, startPending, callLog, commits,
                 expired, direct, matching, emitting, turns, recurring, reminding>>

(***************************************************************************)
(* emit_event called by a tool after its commit (events/emitter.py)        *)
(***************************************************************************)
EventTypes == {"task.created", "task.updated", "task.completed", "task.deleted"}

\* emit_event(event_type, user_id, task_id, data)
Emit(event_type, uid, task_id, running_loop, built) ==
  /\ emitting.at \in {"idle", "done"}
  /\ emitting' = EmitStarted([event_type |-> event_type, user_id |-> uid, task_id |-> task_id],
                             running_loop, built)
  /\ UNCHANGED <<server, store, nextId, pending_delete, pc, run_message, run_user_id, handler,
               pending, matched, tool_calls, result, startPending, callLog, commits, expired,
               direct, matching, detecting, turns, recurring, reminding>>

EmitAny ==
  \E event_type \in EventTypes, uid \in DirectUsers, task_id \in 1..MaxTasks,
     running_loop \in BOOLEAN, built \in BOOLEAN :
    Emit(event_type, uid, task_id, running_loop, built)

\* transport.publish(TOPIC, event) answers
Publish(outcome) ==
  /\ emitting.at = "publish"
  /\ emitting' = _publish_with_retry(emitting, outcome)
  /\ UNCHANGED <<server, store, nextId, pending_delete, pc, run_message, run_user_id, handler,
               pending, matched, tool_calls, result, startPending, callLog, commits, expired,
               direct, matching, detecting, turns, recurring, reminding>>

PublishAny == \E outcome \in TransportOutcomes : Publish(outcome)

\* asyncio.sleep(0.5 * attempt) ends
Backoff ==
  /\ emitting.at = "sleep"
  /\ emitting' = Slept(emitting)
  /\ UNCHANGED <<server, store, nextId, pending_delete, pc, run_message, run_user_id, handler,
               pending, matched, tool_calls, result, startPending, callLog, commits, expired,
               direct, matching, detecting, turns, recurring, reminding>>

(***************************************************************************)
(* Interleaved turns on one runner, switching at the gateway calls         *)
(***************************************************************************)
TurnUsers == { <<49>> (* "1" *), <<50>> (* "2" *) }

\* run(context, message) up to its first gateway call or to its return
TurnRun(i, ctx_user, msg) ==
  /\ turns.slots[i].at = "idle"
  /\ turns.started < MaxStarted
  /\ \E s \in {_process_message(ctx_user, msg, pending_delete)} :
      /\ pending_delete' = s.pending_delete
      /\ turns' = [turns EXCEPT
                     !.started = @ + 1,
                     !.deletes = IF s.kind = "call" /\ s.handler = "confirm" THEN @ + 1 ELSE @,
                     !.slots[i] = IF s.kind = "call"
                                  THEN Turn("call1", msg, ctx_user, s.handler, s.pending,
                                            NoTask, NewToolCalls)
                                  ELSE NoTurn]
      /\ UNCHANGED <<store, nextId, recurring, reminding>>
      /\ UNCHANGED <<server, pc, run_message, run_user_id, handler, pending, matched,
                     tool_calls, result, startPending, callLog, commits, expired, direct,
                     matching, detecting, emitting, recurring, reminding>>

\* the first gateway call of the turn in slot i returns and the handler
\* runs on to its return or to its second call
TurnCallFirst(i, g) ==
  /\ turns.slots[i].at = "call1"
  /\ g \in ServerOutcomes(server)
  /\ \E t \in {turns.slots[i]} :
     \E call \in {FirstCall(t.handler, t.user_id, t.message, t.pending)} :
     \E out \in {Gateway(server, call, ParseInt(t.user_id), store, nextId, g)} :
     \E calls \in {Recorded(t.tool_calls, call.tool, call.params, out.resp)} :
     \E c \in {AfterFirstCall(t.handler, t.user_id, t.message, t.pending, pending_delete,
                              out.resp, calls)} :
      /\ \A k \in DOMAIN out.store : out.store[k].updated_at <= MaxStamp
      /\ store' = out.store
      /\ nextId' = out.nextId
      /\ pending_delete' = c.pending_delete
      /\ turns' = [turns EXCEPT
                     !.stores = IF /\ t.handler = "delete"
                                   /\ c.kind = "return"
                                   /\ c.result.response.key = "delete_confirmation"
                                THEN @ + 1 ELSE @,
                     !.slots[i] = IF c.kind = "call"
                                  THEN [t EXCEPT !.at = "call2", !.matched = c.matched,
                                                 !.tool_calls = calls]
                                  ELSE NoTurn]
      /\ UNCHANGED <<server, pc, run_message, run_user_id, handler, pending, matched,
                     tool_calls, result, startPending, callLog, commits, expired, direct,
                     matching, detecting, emitting, recurring, reminding>>

\* the second gateway call of the turn in slot i returns and the turn ends
TurnCallSecond(i, g) ==
  /\ turns.slots[i].at = "call2"
  /\ g \in ServerOutcomes(server)
  /\ \E t \in {turns.slots[i]} :
     \E call \in {SecondCall(t.handler, t.user_id, t.message, t.matched)} :
     \E out \in {Gateway(server, call, ParseInt(t.user_id), store, nextId, g)} :
      /\ \A k \in DOMAIN out.store : out.store[k].updated_at <= MaxStamp
      /\ store' = out.store
      /\ nextId' = out.nextId
      /\ turns' = [turns EXCEPT !.slots[i] = NoTurn]
      /\ UNCHANGED pending_delete
      /\ UNCHANGED <<server, pc, run_message, run_user_id, handler, pending, matched,
                     tool_calls, result, startPending, callLog, commits, expired, direct,
                     matching, detecting, emitting, recurring, reminding>>

\* asyncio.wait_for cancels the turn in slot i where it is suspended
TurnTimeout(i) ==
  /\ turns.slots[i].at \in {"call1", "call2"}
  /\ turns' = [turns EXCEPT !.slots[i] = NoTurn]
  /\ UNCHANGED <<store, nextId, pending_delete, recurring, reminding>>
  /\ UNCHANGED <<server, pc, run_message, run_user_id, handler, pending, matched,
                     tool_calls, result, startPending, callLog, commits, expired, direct,
                     matching, detecting, emitting, recurring, reminding>>

TurnRunAny ==
  \E i \in 1..MaxConcurrent, ctx_user \in TurnUsers, msg \in TurnMessages : TurnRun(i, ctx_user, msg)

TurnCallFirstAny == \E i \in 1..MaxConcurrent, g \in GatewayOutcomes : TurnCallFirst(i, g)

TurnCallSecondAny == \E i \in 1..MaxConcurrent, g \in GatewayOutcomes : TurnCallSecond(i, g)

TurnTimeoutAny == \E i \in 1..MaxConcurrent : TurnTimeout(i)

(***************************************************************************)
(* Deliveries of task events to the recurring-task consumer                *)
(***************************************************************************)
\* the events published on task-events, by event_id
TaskEvents ==
  [e1 |-> [event_id |-> "e1", event_type |-> "task.completed", task_id |-> 1,
           recurrence_rule |-> "daily", recurrence_depth |-> 0],
   e2 |-> [event_id |-> "e2", event_type |-> "task.completed", task_id |-> 2,
           recurrence_rule |-> "weekly", recurrence_depth |-> 3],
   e3 |-> [event_id |-> "e3", event_type |-> "task.completed", task_id |-> 1,
           recurrence_rule |-> "", recurrence_depth |-> 0],
   e4 |-> [event_id |-> "e4", event_type |-> "task.created", task_id |-> 2,
           recurrence_rule |-> "daily", recurrence_depth |-> 0],
   e5 |-> [event_id |-> "e5", event_type |-> "task.completed", task_id |-> 2,
           recurrence_rule |-> "daily", recurrence_depth |-> 1000]]

\* what the database does with the select and the commit of one delivery
DbOutcomes == {"ok", "not_found", "raised"}

\* the processed-event cache when the followed events begin to arrive
CacheFills == {0, MAX_PROCESSED_CACHE - 2, MAX_PROCESSED_CACHE - 1, MAX_PROCESSED_CACHE}

RecurInit ==
  /\ Constructed
  /\ matching = NoMatching
  /\ detecting = NoDetecting
  /\ emitting = NoEmitting
  /\ turns = NoTurns
  /\ recurring \in {Consumer(engine, others) : engine \in BOOLEAN, others \in CacheFills}
  /\ reminding = NoReminding

\* POST /task-events: one delivery or redelivery of an event
Deliver(e, db) ==
  /\ recurring.up
  /\ recurring.deliveries < MaxDeliveries
  /\ recurring' = [handle_task_event(recurring, TaskEvents[e], db) EXCEPT !.deliveries = @ + 1]
  /\ UNCHANGED <<server, store, nextId, pending_delete, pc, run_message, run_user_id, handler,
                 pending, matched, tool_calls, result, startPending, callLog, commits, expired,
                 direct, matching, detecting, emitting, turns, reminding>>

DeliverAny == \E e \in EventIds, db \in DbOutcomes : Deliver(e, db)

(***************************************************************************)
(* The reminder check and the deliveries to the notification consumer      *)
(***************************************************************************)
RemindInit ==
  /\ Constructed
  /\ matching = NoMatching
  /\ detecting = NoDetecting
  /\ emitting = NoEmitting
  /\ turns = NoTurns
  /\ recurring = NoRecurring
  /\ reminding \in {Reminding(engine, due) : engine \in BOOLEAN,
                                             due \in SUBSET (1..MaxReminders)}

\* POST /api/internal/check-reminders arrives
CheckBegin ==
  /\ reminding.up
  /\ reminding.at = "idle"
  /\ reminding.checks < MaxChecks
  /\ reminding' = check_reminders(reminding)
  /\ UNCHANGED <<server, store, nextId, pending_delete, pc, run_message, run_user_id, handler,
                 pending, matched, tool_calls, result, startPending, callLog, commits, expired,
                 direct, matching, detecting, emitting, turns, recurring>>

\* the transport answers the publish of the loop
CheckPublish(outcome) ==
  /\ reminding.at = "publish"
  /\ reminding' = Published(reminding, outcome)
  /\ UNCHANGED <<server, store, nextId, pending_delete, pc, run_message, run_user_id, handler,
                 pending, matched, tool_calls, result, startPending, callLog, commits, expired,
                 direct, matching, detecting, emitting, turns, recurring>>

CheckPublishAny == \E outcome \in {"published", "failed"} : CheckPublish(outcome)

\* the commit that ends check_reminders reaches the database
CheckCommit ==
  /\ reminding.at = "commit"
  /\ reminding' = SessionCommitted(reminding)
  /\ UNCHANGED <<server, store, nextId, pending_delete, pc, run_message, run_user_id, handler,
                 pending, matched, tool_calls, result, startPending, callLog, commits, expired,
                 direct, matching, detecting, emitting, turns, recurring>>

\* POST /reminders: Dapr delivers event event_id to the consumer
Handle(event_id, db, again) ==
  /\ reminding.up
  /\ event_id <= Len(reminding.events)
  /\ reminding.events[event_id].in_flight
  /\ reminding' = handle_reminder_event(reminding, event_id, db, again)
  /\ UNCHANGED <<server, store, nextId, pending_delete, pc, run_message, run_user_id, handler,
                 pending, matched, tool_calls, result, startPending, callLog, commits, expired,
                 direct, matching, detecting, emitting, turns, recurring>>

HandleAny ==
  \E event_id \in 1..MaxReminders, db \in DbOutcomes, again \in BOOLEAN :
    Handle(event_id, db, again)

RunAny == \E ctx_user \in CtxUsers, msg \in Messages : Run(ctx_user, msg)

CallFirstAny == \E g \in GatewayOutcomes, slow \in BOOLEAN : CallFirst(g, slow)

CallSecondAny == \E g \in GatewayOutcomes, slow \in BOOLEAN : CallSecond(g, slow)

\* one runner, its gateway and its Task Store
Next == RunAny \/ CallFirstAny \/ CallSecondAny

Spec == Init /\ [][Next]_vars

\* clients of the MCPToolServer
ToolNext == InvokeAdd \/ InvokeList \/ InvokeComplete \/ InvokeDelete \/ InvokeUpdate

ToolSpec == Init /\ [][ToolNext]_vars

\* callers of the matcher
MatchNext == Match

MatchSpec == MatchInit /\ [][MatchNext]_vars

\* callers of the language detector
DetectNext == Detect

DetectSpec == DetectInit /\ [][DetectNext]_vars

\* tools that emit events.  Both transports answer every publish within
\* their timeouts and the event loop resumes a sleeping task.
EmitNext == EmitAny \/ PublishAny \/ Backoff

EmitSpec == Init /\ [][EmitNext]_vars /\ WF_vars(PublishAny) /\ WF_vars(Backoff)

\* several run() calls in flight on one runner
TurnNext == TurnRunAny \/ TurnCallFirstAny \/ TurnCallSecondAny \/ TurnTimeoutAny

TurnSpec == Init /\ [][TurnNext]_vars

\* Dapr delivers the events of task-events at least once
RecurNext == DeliverAny

RecurSpec == RecurInit /\ [][RecurNext]_vars

\* The API process and the consumer process.  The transport answers every
\* publish, the commit of check_reminders is not held back, and Dapr keeps
\* delivering an event in flight while the database answers the consumer.
RemindNext == CheckBegin \/ CheckPublishAny \/ CheckCommit \/ HandleAny

RemindSpec ==
  /\ RemindInit
  /\ [][RemindNext]_vars
  /\ WF_vars(CheckPublishAny)
  /\ WF_vars(CheckCommit)
  /\ \A event_id \in 1..MaxReminders : WF_vars(Handle(event_id, "ok", FALSE))

(***************************************************************************)
(* Properties of the Agent Runner  (specification Spec)                    *)
(***************************************************************************)

\* C1: a turn that begins with a pending delete confirmation ends with
\* none -- the runner is Idle when that run() returns -- whatever the
\* message and also when the turn fails.
C1_PendingConsumedByNextTurn ==
  (pc = "done" /\ startPending # NoPending) => pending_delete = NoPending

\* C2: delete_task is called only in a turn that began with a pending
\* confirmation and whose message is a confirmation, and with the id of the
\* task held in that pending confirmation.
C2_DeleteOnlyOnConfirmedPending ==
  \A i \in 1..Len(callLog) :
    callLog[i].tool = "delete_task" =>
      /\ startPending # NoPending
      /\ is_confirmation(run_message)
      /\ callLog[i].params["task_id"] = IntToStr(startPending.task.id)

C2_Witness ==
  /\ pc = "done"
  /\ \E i \in 1..Len(callLog) : callLog[i].tool = "delete_task" /\ callLog[i].outcome = "ok"

\* C3: an Idle delete turn whose list succeeded and whose reference resolves
\* to exactly one listed task has called list_tasks only, holds a pending
\* confirmation for exactly that task and answers with the confirmation
\* prompt naming its title.
C3_UniqueDeleteAsksConfirmation ==
  LET lng == detect_language(run_message)
      listed == tool_calls[1].result
      found == Resolve(run_message, listed.data.tasks)[2]
  IN  (/\ pc = "done"
       /\ handler = "delete"
       /\ startPending = NoPending
       /\ Len(callLog) >= 1
       /\ listed.success
       /\ Len(found) = 1)
      => /\ Len(callLog) = 1
         /\ callLog[1].tool = "list_tasks"
         /\ pending_delete = [task |-> found[1], user_id |-> run_user_id, lang |-> lng]
         /\ result.success
         /\ result.response = get_template("delete_confirmation", lng, <<found[1].title>>)
         /\ result.tool_calls = tool_calls

C3_Witness ==
  /\ pc = "done"
  /\ handler = "delete"
  /\ pending_delete # NoPending
  /\ result.response.key = "delete_confirmation"

\* C4: a delete, complete or update turn whose list succeeded and whose
\* reference matches no task or several tasks calls no mutating tool and
\* sets no pending confirmation; when several match, the response lists the
\* titles of all candidates, when none does it is the not-found error.
C4_NoMatchOrAmbiguousChangesNothing ==
  LET lng == detect_language(run_message)
      listed == tool_calls[1].result
      found == Resolve(run_message, listed.data.tasks)[2]
  IN  (/\ pc = "done"
       /\ handler \in {"delete", "complete", "update"}
       /\ Len(callLog) >= 1
       /\ listed.success
       /\ Len(found) # 1)
      => /\ \A i \in 1..Len(callLog) :
              callLog[i].tool \notin {"complete_task", "delete_task", "update_task"}
         /\ pending_delete = NoPending
         /\ Len(found) > 1 =>
              result.response = get_template("ambiguous_request", lng, Titles(found))
         /\ Len(found) = 0 =>
              ~result.success /\ result.response = get_template("task_not_found", lng, <<>>)

C4_Witness ==
  /\ pc = "done"
  /\ handler \in {"delete", "complete", "update"}
  /\ pending_delete = NoPending
  /\ result.response.key = "ambiguous_request"
  /\ Len(result.response.titles) = 2

\* C6: a turn during which the timeout elapsed returns success = false,
\* error = "timeout", the language of the input message and the tool calls
\* completed so far.
C6_ExpiredTurnReportsTimeout ==
  (pc = "done" /\ expired) =>
    /\ ~result.success
    /\ result.error = "timeout"
    /\ result.language = detect_language(run_message)
    /\ result.tool_calls = tool_calls

\* C7: every run() returns an AgentResult; when the dispatch raises, or a
\* gateway call raised, the result is a failure whose response is the
\* localized "unknown" template, never the exception text, and the tool
\* calls made so far are kept.
C7_FailuresAreRenderedNotRaised ==
  LET lng == detect_language(run_message)
      unknown == to_friendly_message("unknown", lng)
  IN  pc = "done" =>
        /\ result.language = lng
        /\ result.tool_calls = tool_calls
        /\ ParseInt(run_user_id) < 0 =>
             ~result.success /\ result.response = unknown /\ result.error = "ValueError"
        /\ (callLog # <<>> /\ callLog[Len(callLog)].outcome = "raise") =>
             ~result.success /\ result.response = unknown

C7_Witness ==
  /\ pc = "done"
  /\ ParseInt(run_user_id) < 0
  /\ result.response.key = "unknown"
  /\ result.error = "ValueError"

\* C8: every call that committed a change to the Task Store during a turn
\* has its record in the tool_calls of the result of that turn, also when
\* the turn reports a failure.
C8_CommittedMutationsAreRecorded ==
  pc = "done" =>
    \A i \in 1..Len(commits) :
      \E j \in 1..Len(result.tool_calls) :
        /\ result.tool_calls[j].tool_name = commits[i].tool
        /\ result.tool_calls[j].parameters =
             [k \in DOMAIN commits[i].params \ {"user_id"} |-> commits[i].params[k]]

C8_Witness ==
  /\ pc = "done"
  /\ commits # <<>>
  /\ ~result.success

\* C9: the tool_calls of a result are the gateway calls of the turn, in
\* call order, one record per call whether it succeeded, answered with an
\* error envelope or raised, and no record's parameters hold user_id.
C9_ToolCallsMirrorGatewayCalls ==
  pc = "done" =>
    /\ Len(result.tool_calls) = Len(callLog)
    /\ \A i \in 1..Len(callLog) :
         LET rec == result.tool_calls[i]
         IN  /\ rec.tool_name = callLog[i].tool
             /\ "user_id" \notin DOMAIN rec.parameters
             /\ DOMAIN rec.parameters = DOMAIN callLog[i].params \ {"user_id"}
             /\ \A k \in DOMAIN rec.parameters : rec.parameters[k] = callLog[i].params[k]
             /\ (callLog[i].outcome = "raise") <=> (ErrorCode(rec.result) = "tool_error")

C9_Witness ==
  /\ pc = "done"
  /\ Len(callLog) = 2
  /\ callLog[2].outcome = "raise"
  /\ Len(result.tool_calls) = 2

C5_ForeignTaskAlwaysNotFound ==
  LET t == ParseInt(direct.params["task_id"])
  IN  (/\ direct.tool \in {"complete_task", "delete_task", "update_task"}
       /\ direct.before # NoRow
       /\ direct.before.user_id # direct.user_id_int
       /\ direct.db_ok)
      => /\ ~direct.response.success
         /\ direct.response.error.code = "not_found"
         /\ direct.response.data = NoData
         /\ store[t] = direct.before

\* C5: a call of complete_task, delete_task or update_task that addresses a
\* task of another user never succeeds, returns no data and leaves the task
\* as it was; it answers not_found whenever its parameters pass validation
\* and the store query succeeds, and otherwise with the validation error
\* or processing_error.
C5_ForeignTaskIsNeverTouched ==
  LET t == ParseInt(direct.params["task_id"])
      valid == direct.tool = "update_task" =>
                 /\ has_update_fields(direct.params)
                 /\ Get(direct.params, "priority", "P3") \in VALID_PRIORITIES
                 /\ "title" \in DOMAIN direct.params => title_valid(direct.params["title"])
  IN  (/\ direct.tool \in {"complete_task", "delete_task", "update_task"}
       /\ direct.before # NoRow
       /\ direct.before.user_id # direct.user_id_int)
      => /\ ~direct.response.success
         /\ direct.response.data = NoData
         /\ ~direct.committed
         /\ store[t] = direct.before
         /\ (valid /\ direct.db_ok) <=> direct.response.error.code = "not_found"
         /\ ~valid => direct.response.error.code \in {"invalid_input", "invalid_priority"}
         /\ (valid /\ ~direct.db_ok) => direct.response.error.code = "processing_error"

C5_Witness ==
  /\ direct.tool = "update_task"
  /\ direct.before # NoRow
  /\ direct.before.user_id # direct.user_id_int
  /\ direct.response.error.code = "not_found"

C12_DeleteEmitsTaskDeleted ==
  LET Holds(e, t) ==
        \E i \in 1..Len(e) :
          /\ e[i] = emit_event("task.deleted", direct.user_id_int, t)
          /\ \E j \in 1..(i - 1) : e[j] = Committed(t, direct.user_id_int)
  IN  (direct.tool = "delete_task" /\ direct.response.success)
        => Holds(direct.effects, ParseInt(direct.params["task_id"]))

\* C13: a tool call answered with invalid_input, invalid_priority or
\* invalid_date has opened no session, committed nothing, emitted no event
\* and left the Task Store as it was.
C13_InvalidCallsNeverReachTheStore ==
  (/\ direct.tool # ""
   /\ ~direct.response.success
   /\ direct.response.error.code \in {"invalid_input", "invalid_priority", "invalid_date"})
    => /\ direct.effects = <<>>
       /\ ~direct.committed
       /\ ~direct.changed

C13_Witness ==
  /\ direct.tool = "update_task"
  /\ direct.before # NoRow
  /\ direct.before.user_id = direct.user_id_int
  /\ ~direct.response.success
  /\ direct.response.error.code = "invalid_priority"

\* C14: no tool call lets an exception leave the tool; a call whose Task
\* Store or other internal step failed answers with an error envelope of
\* code processing_error.
C14_ToolsNeverRaise ==
  direct.tool # "" =>
    /\ ~direct.escaped
    /\ direct.failure # "" =>
         /\ ~direct.response.success
         /\ direct.response.data = NoData
         /\ direct.response.error.code = "processing_error"

C14_Witness ==
  /\ direct.tool = "complete_task"
  /\ direct.before # NoRow
  /\ direct.failure = "db"
  /\ direct.response.error.code = "processing_error"

\* C15: every envelope of the five tools, and the envelope the runner
\* substitutes for a call that raised, has exactly one of data and error
\* populated: data iff success, error iff not success.
C15_ExactlyOneOfDataAndError ==
  LET Populated(env, k) == k \in DOMAIN env /\ env[k] \notin {NoData, NoError}
      Holds(env) ==
        /\ Populated(env, "data") <=> env.success
        /\ Populated(env, "error") <=> ~env.success
  IN  /\ direct.tool # "" => Holds(direct.response)
      /\ Holds(ToolErrorResult)

C15_Witness ==
  /\ direct.tool = "delete_task"
  /\ direct.response.success
  /\ direct.response.data.deleted
  /\ direct.response.error = NoError

\* C16: a complete_task call on a task of the caller, the Task Store being
\* available, returns success with completed = true and leaves the task
\* completed; a call that repeats the call before it, or that finds the
\* task completed, leaves the Task Store exactly as it found it.
C16_CompleteTaskIsIdempotent ==
  LET Holds(t) ==
        /\ direct.response.success
        /\ direct.response.data.id = t
        /\ direct.response.data.completed
        /\ store[t].completed
        /\ (direct.repeat \/ direct.before.completed)
             => (~direct.changed /\ ~direct.committed /\ store[t] = direct.before)
  IN  (/\ direct.tool = "complete_task"
       /\ direct.db_ok
       /\ direct.before # NoRow
       /\ direct.before.user_id = direct.user_id_int)
        => Holds(ParseInt(direct.params["task_id"]))

C16_Witness ==
  /\ direct.tool = "complete_task"
  /\ direct.repeat
  /\ direct.before.completed
  /\ direct.before.user_id = direct.user_id_int
  /\ direct.response.success

C18_ListTasksAlwaysSucceeds ==
  LET Holds(tasks, listed) ==
        /\ direct.response.data.total = Len(tasks)
        /\ Len(listed) = Len(tasks)
        /\ \A i \in 1..Len(tasks) :
             /\ listed[i].id = tasks[i]
             /\ listed[i].title = store[tasks[i]].title
             /\ store[tasks[i]].user_id = direct.user_id_int
  IN  (direct.tool = "list_tasks" /\ direct.db_ok)
        => /\ direct.response.success
           /\ Holds(NewestFirst(get_tasks_filtered(store, direct.user_id_int)),
                    direct.response.data.tasks)

\* C19 as stated: a task stored by add_task under a title is returned by a
\* list_tasks call of its user with exactly that title, and
\* match_task_by_title on that title over the returned list yields that
\* task as the unique match (the title being that of no other task of the
\* user).
C19_AddedTaskIsListedAndMatched ==
  LET Mine == get_tasks_filtered(store, direct.user_id_int)
      Holds(t, listed) ==
        /\ \E i \in 1..Len(listed) : listed[i].id = t /\ listed[i].title = store[t].title
        /\ match_task_by_title(store[t].title, listed)[1].id = t
        /\ Len(match_task_by_title(store[t].title, listed)[2]) = 1
  IN  (direct.tool = "list_tasks" /\ direct.db_ok) =>
        \A t \in Mine :
          (\A u \in Mine \ {t} : store[u].title # store[t].title)
            => (direct.response.success /\ Holds(t, direct.response.data.tasks))

(***************************************************************************)
(* Properties of the Task Matcher  (specification MatchSpec)               *)
(***************************************************************************)

\* C20 as stated: when no title equals the (non-empty) query exactly and at
\* least one task matches by substring, the candidates are exactly the
\* substring matches, in list order; tasks that qualify by word overlap
\* alone are candidates only when no task matches by substring.
C20_SubstringTierWinsOverOverlap ==
  LET Holds(q, tasks, candidates) ==
        LET Sub(t) == Contains(Lower(t.title), q) \/ Contains(q, Lower(t.title))
        IN  (/\ q # <<>>
             /\ \A i \in 1..Len(tasks) : Lower(tasks[i].title) # q
             /\ \E i \in 1..Len(tasks) : Sub(tasks[i]))
              => candidates = SelectSeq(tasks, Sub)
  IN  matching.called
        => Holds(Strip(Lower(matching.query)), matching.tasks, matching.all_matching_tasks)

\* C21: when the query equals, ignoring case, the title of exactly one task
\* of the list, that task is returned as the unique match and is the only
\* candidate, whatever the other tasks and wherever the task sits.
C21_ExactTitleIsTheUniqueMatch ==
  LET Holds(q, tasks) ==
        \A i \in 1..Len(tasks) :
          (/\ Lower(tasks[i].title) = q
           /\ \A j \in 1..Len(tasks) : Lower(tasks[j].title) = q => j = i)
            => /\ matching.matched_task = tasks[i]
               /\ matching.all_matching_tasks = <<tasks[i]>>
  IN  matching.called => Holds(Lower(matching.query), matching.tasks)

C21_Witness ==
  /\ matching.called
  /\ matching.query = <<98,117,121,32,109,105,108,107>> (* "buy milk" *)
  /\ Len(matching.tasks) = 3
  /\ matching.tasks[1].title = <<66,117,121,32,109,105,108,107,32,110,111,119>> (* "Buy milk now" *)
  /\ matching.tasks[2].title = <<77,105,108,107,32,116,104,101,32,99,111,119>> (* "Milk the cow" *)
  /\ matching.tasks[3].title = <<66,117,121,32,109,105,108,107>> (* "Buy milk" *)
  /\ matching.matched_task.id = 3

\* C22: the matcher returns its only candidate as the unique match, no
\* unique match with the candidates when there are several, and no match
\* and no candidate when there is none or when the query or the list is
\* empty; the candidates are tasks of the list, in list order;
\* detect_ambiguity of the candidates holds iff there are more than one.
C22_ResultPolicy ==
  LET Holds(tasks, unique, candidates) ==
        /\ Len(candidates) = 1 => unique = candidates[1]
        /\ Len(candidates) # 1 => unique = NoTask
        /\ (matching.query = <<>> \/ tasks = <<>>) => candidates = <<>>
        /\ \A i \in 1..Len(candidates) : tasks[candidates[i].id] = candidates[i]
        /\ \A i \in 1..(Len(candidates) - 1) : candidates[i].id < candidates[i + 1].id
        /\ matching.ambiguous <=> Len(candidates) > 1
  IN  matching.called
        => Holds(matching.tasks, matching.matched_task, matching.all_matching_tasks)

C22_Witness ==
  /\ matching.called
  /\ matching.query = <<109,105,108,107>> (* "milk" *)
  /\ Len(matching.tasks) = 3
  /\ Len(matching.all_matching_tasks) = 3
  /\ matching.matched_task = NoTask
  /\ matching.ambiguous

(***************************************************************************)
(* Further properties of the Agent Runner  (specification Spec)            *)
(***************************************************************************)

\* C23: in a finished Idle turn of a valid user whose message is neither a greeting
\* nor thanks, the handler that runs is that of the first intent, in the
\* order add, list, complete, delete, update, of which the message holds a
\* keyword, and the turn calls the tools of that handler only; a message
\* with no keyword gets the fallback answer and no call.
C23_FirstIntentInOrderWins ==
  LET order == <<"add", "list", "complete", "delete", "update">>
      KeywordsOf(h) ==
        CASE h = "add" -> AddKeywords
          [] h = "list" -> ListKeywords
          [] h = "complete" -> CompleteKeywords
          [] h = "delete" -> DeleteKeywords
          [] h = "update" -> UpdateKeywords
      ToolsOf(h) ==
        CASE h = "add" -> {"add_task"}
          [] h = "list" -> {"list_tasks"}
          [] h = "complete" -> {"list_tasks", "complete_task"}
          [] h = "delete" -> {"list_tasks"}
          [] h = "update" -> {"list_tasks", "update_task"}
      Holds(msg_lower) ==
        LET Hit == {i \in 1..5 : AnyKeyword(msg_lower, KeywordsOf(order[i]))}
            Runs(h) ==
              /\ handler \in {h} \cup (IF h = "add" THEN {""} ELSE {})
              /\ handler = "" => (callLog = <<>> /\ result.response.key = "add_prompt")
              /\ \A i \in 1..Len(callLog) : callLog[i].tool \in ToolsOf(h)
        IN  IF Hit = {}
            THEN handler = "" /\ callLog = <<>> /\ result.response.key = "fallback"
            ELSE Runs(order[SetMin(Hit)])
  IN  (/\ pc = "done"
       /\ ParseInt(run_user_id) >= 0
       /\ startPending = NoPending
       /\ ~is_greeting(run_message)
       /\ ~is_thanks(run_message))
        => Holds(Lower(run_message))

C23_Witness ==
  /\ pc = "done"
  /\ run_message = <<114,101,109,111,118,101,32,97,110,100,32,117,112,100,97,116,101,32,98,117,121,32,109,105,108,107>> (* "remove and update buy milk" *)
  /\ startPending = NoPending
  /\ handler = "delete"
  /\ Len(callLog) = 1
  /\ pending_delete # NoPending

\* C24: an Idle turn of a valid user whose message is a greeting or thanks
\* succeeds with the greeting (else the thanks) template in the detected
\* language, makes no gateway call, returns no tool call and leaves the
\* runner Idle.
C24_GreetingAndThanksAreCanned ==
  LET Holds(lang) ==
        /\ pc = "done"
        /\ result.success
        /\ result.response = IF is_greeting(run_message)
                             THEN get_template("greeting", lang, <<>>)
                             ELSE get_template("thanks", lang, <<>>)
        /\ result.language = lang
        /\ callLog = <<>>
        /\ result.tool_calls = <<>>
        /\ pending_delete = NoPending
  IN  (/\ pc # "ready"
       /\ ParseInt(run_user_id) >= 0
       /\ startPending = NoPending
       /\ (is_greeting(run_message) \/ is_thanks(run_message)))
        => Holds(detect_language(run_message))

C24_Witness ==
  /\ pc = "done"
  /\ run_message = <<116,104,97,110,107,115>> (* "thanks" *)
  /\ ParseInt(run_user_id) >= 0
  /\ startPending = NoPending
  /\ result.response.key = "thanks"

\* C25 as stated: a turn of a valid user that begins with a pending
\* confirmation and whose message is 'haan' calls delete_task for the
\* pending task and nothing else, leaves the runner Idle, and its result is
\* tagged roman_ur and, the deletion having succeeded, carries the
\* Roman-Urdu deletion confirmation.
C25_HaanConfirmsInRomanUrdu ==
  (/\ pc = "done"
   /\ ParseInt(run_user_id) >= 0
   /\ startPending # NoPending
   /\ run_message = <<104,97,97,110>> (* "haan" *))
    => /\ Len(callLog) = 1
       /\ callLog[1].tool = "delete_task"
       /\ callLog[1].params["task_id"] = IntToStr(startPending.task.id)
       /\ pending_delete = NoPending
       /\ result.language = "roman_ur"
       /\ tool_calls[1].result.success
            => result.response = format_task_deleted(startPending.task, "roman_ur")

\* C26: a turn makes at most 2 gateway calls, so never more than
\* MAX_ITERATIONS; when it makes two, the first is list_tasks, it succeeded,
\* and the second is complete_task or update_task on a task of that list.
C26_AtMostTwoCallsPerTurn ==
  /\ Len(callLog) <= 2
  /\ Len(callLog) <= MAX_ITERATIONS
  /\ Len(tool_calls) = Len(callLog)
  /\ Len(callLog) = 2 =>
       /\ callLog[1].tool = "list_tasks"
       /\ callLog[2].tool \in {"complete_task", "update_task"}
       /\ tool_calls[1].result.success
       /\ \E i \in 1..Len(tool_calls[1].result.data.tasks) :
            IntToStr(tool_calls[1].result.data.tasks[i].id) = callLog[2].params["task_id"]

C26_Witness ==
  /\ pc = "done"
  /\ Len(callLog) = 2
  /\ callLog[2].tool = "update_task"
  /\ callLog[2].params["task_id"] = <<50>> (* "2" *)

\* C27: the language tag of the result of a turn is detect_language of the
\* message of that turn, whatever the branch the turn took.
C27_ResultLanguageMirrorsMessage ==
  pc = "done" => result.language = detect_language(run_message)

C27_Witness ==
  /\ pc = "done"
  /\ result.language = "ur"
  /\ ~result.success
  /\ Len(callLog) = 1

(***************************************************************************)
(* Properties of the Language Detector  (specification DetectSpec)         *)
(***************************************************************************)

\* C28: detect_language answers ur when a character of the message lies in
\* U+0600..U+06FF; otherwise roman_ur when the lowercased whitespace tokens
\* hold at least 2 Roman-Urdu keywords; otherwise roman_ur when they hold a
\* strong indicator; otherwise en; a second call answers the same.
C28_DetectionRulesInOrder ==
  LET Holds(message, tokens) ==
        /\ detecting.language =
             IF \E i \in 1..Len(message) : message[i] \in 1536..1791 THEN "ur"
             ELSE IF \E v, w \in tokens \cap ROMAN_URDU_KEYWORDS : v # w THEN "roman_ur"
             ELSE IF \E w \in tokens : w \in strong_indicators THEN "roman_ur"
             ELSE "en"
        /\ detecting.repeated = detecting.language
  IN  detecting.called
        => Holds(detecting.message, WordSet(Lower(detecting.message)))

C28_Witness ==
  /\ detecting.called
  /\ detecting.message = <<104,97,97,110,32,104,97,97,110,32,78,97,104,105>> (* "haan haan Nahi" *)
  /\ detecting.language = "roman_ur"
  /\ detecting.repeated = "roman_ur"

\* C29 as stated: a message all of whose characters are Arabic-script
\* characters or whitespace is detected as ur.
C29_ArabicScriptOnlyIsUrdu ==
  LET ArabicScript == 1536..1791 \cup 1872..1919 \cup 2208..2303
                        \cup 64336..65023 \cup 65136..65279
      Only(message) == \A i \in 1..Len(message) : message[i] \in ArabicScript \cup WS
  IN  (detecting.called /\ Only(detecting.message))
        => detecting.language = "ur"

\* C29, amended: a message that holds at least one character of
\* U+0600..U+06FF, and otherwise only Arabic-script characters and
\* whitespace, is detected as ur.
C29_ArabicBlockCharacterIsUrdu ==
  LET ArabicScript == 1536..1791 \cup 1872..1919 \cup 2208..2303
                        \cup 64336..65023 \cup 65136..65279
      Only(message) == \A i \in 1..Len(message) : message[i] \in ArabicScript \cup WS
      Some(message) == \E i \in 1..Len(message) : message[i] \in 1536..1791
  IN  (detecting.called /\ Only(detecting.message) /\ Some(detecting.message))
        => detecting.language = "ur"

C29_Witness ==
  /\ detecting.called
  /\ detecting.message = <<32,32,1729,1575,1722,32,64394,65259>> (* "  \u06c1\u0627\u06ba \ufb8a\ufeeb" *)
  /\ detecting.language = "ur"

(***************************************************************************)
(* Further properties of the Tool Gateway  (specification ToolSpec)        *)
(***************************************************************************)

\* C30: add_task and update_task accept the priority values Low, Medium and
\* High (no such call is answered invalid_priority) and answer any other
\* priority value with the error code invalid_priority.
C30_LowMediumHighAreThePriorities ==
  LET Refused(resp) == ~resp.success /\ resp.error.code = "invalid_priority"
  IN  (direct.tool \in {"add_task", "update_task"} /\ "priority" \in DOMAIN direct.params)
        => (Refused(direct.response)
              <=> direct.params["priority"] \notin {"Low", "Medium", "High"})

(***************************************************************************)
(* Properties of the Event Emitter  (specification EmitSpec)               *)
(***************************************************************************)

\* C31: whatever the transport answers, one emit_event makes at most 3
\* publish attempts, the first successful attempt is the last step, a sleep
\* comes only after a failed attempt and before the next one, emit_event
\* never raises, and a publishing that began comes to its end.
C31_EmissionIsBoundedAndSilent ==
  LET Safe(steps) ==
        /\ Cardinality({i \in 1..Len(steps) : steps[i].step = "publish"}) <= 3
        /\ \A i \in 1..Len(steps) :
             steps[i].outcome = "published" => (i = Len(steps) /\ emitting.at = "done")
        /\ \A i \in 1..Len(steps) :
             steps[i].step = "sleep" =>
               /\ i > 1
               /\ steps[i - 1].step = "publish"
               /\ steps[i - 1].outcome # "published"
               /\ IF i < Len(steps) THEN steps[i + 1].step = "publish"
                                    ELSE emitting.at = "publish"
        /\ ~emitting.raised
        /\ emitting.at = "done" => emitting.returned
  IN  /\ [] Safe(emitting.steps)
      /\ (emitting.at \in {"publish", "sleep"}) ~> (emitting.at = "done")

C31_Witness ==
  /\ emitting.at = "done"
  /\ emitting.gave_up
  /\ Len(emitting.steps) = 5
  /\ emitting.steps[5].outcome = "raised"
  /\ emitting.returned
  /\ ~emitting.raised

(***************************************************************************)
(* Properties of the Tool Gateway, continued  (specification ToolSpec)     *)
(***************************************************************************)

\* C32 as stated: the update_task call that the update handler makes for a
\* message without update fields ('update buy'), on a task of the caller
\* with the Task Store up, is answered with success, and the turn that made
\* it ends with success = true.
C32_UpdateWithoutFieldsSucceeds ==
  LET Holds(msg, ctx_user, task) ==
        (/\ DOMAIN OnMessage[msg].updates = {}
         /\ direct.params = SecondCall("update", ctx_user, msg, task).params
         /\ direct.before.user_id = direct.user_id_int
         /\ direct.db_ok)
          => /\ direct.response.success
             /\ AfterSecondCall("update", msg, task, direct.response, <<>>).success
  IN  (direct.tool = "update_task" /\ direct.before # NoRow)
        => Holds(<<117,112,100,97,116,101,32,98,117,121>> (* "update buy" *), IntToStr(direct.user_id_int),
                 [NoTask EXCEPT !.id = ParseInt(direct.params["task_id"])])

\* C34 as stated: an add_task or update_task call that is answered with a
\* failure envelope has left the Task Store as it found it.
C34_FailedWritesChangeNothing ==
  (direct.tool \in {"add_task", "update_task"} /\ ~direct.response.success)
    => ~direct.changed

(***************************************************************************)
(* Properties of the Agent Runner, continued  (specification Spec)         *)
(***************************************************************************)

\* C33 as stated: when a turn of a valid user has answered the confirmation
\* prompt with a message of the cancellation vocabulary, the turn that
\* follows it does not go on to call delete_task for the pending task (only
\* a turn after a new delete request could).
C33_CancelledTaskIsNotDeleted ==
  [][(/\ pc = "done"
      /\ startPending # NoPending
      /\ ParseInt(run_user_id) >= 0
      /\ is_cancellation(run_message)
      /\ pc' = "call1")
       => handler' # "confirm"]_vars

\* C35 as stated: a turn of a valid user that begins while a confirmation
\* of another user is pending neither clears that confirmation nor goes on
\* to call delete_task for its task.
C35_PendingIsConsumedByItsUserOnly ==
  (/\ pc # "ready"
   /\ startPending # NoPending
   /\ ParseInt(run_user_id) >= 0
   /\ run_user_id # startPending.user_id)
    => /\ pending_delete = startPending
       /\ handler # "confirm"
       /\ \A i \in 1..Len(callLog) : callLog[i].tool # "delete_task"

(***************************************************************************)
(* Properties of interleaved turns  (specification TurnSpec)               *)
(***************************************************************************)

\* C36: with turns interleaved at the gateway calls, every delete_task call
\* of a confirmation turn consumes a stored confirmation of its own: the
\* delete_task calls begun, plus the confirmation still stored, never
\* outnumber the confirmations stored.
C36_OnePendingOneDelete ==
  turns.deletes + (IF pending_delete # NoPending THEN 1 ELSE 0) <= turns.stores

C36_Witness ==
  /\ turns.deletes = 1
  /\ turns.stores = 2
  /\ pending_delete # NoPending
  /\ \E i \in 1..MaxConcurrent : turns.slots[i].handler = "confirm"

(***************************************************************************)
(* Properties of the Task Matcher, continued  (specification MatchSpec)    *)
(***************************************************************************)

\* C37 as stated: when two or more tasks of the list carry the queried
\* title (ignoring case), the matcher returns no unique match and returns
\* the tasks that carry it among two or more candidates.
C37_DuplicateTitlesAreAmbiguous ==
  LET Holds(q, tasks, twins) ==
        Cardinality(twins) >= 2
          => /\ matching.matched_task = NoTask
             /\ Len(matching.all_matching_tasks) >= 2
             /\ \A i \in twins :
                  \E k \in 1..Len(matching.all_matching_tasks) :
                    matching.all_matching_tasks[k] = tasks[i]
      Twins(q, tasks) == Holds(q, tasks, {i \in 1..Len(tasks) : Lower(tasks[i].title) = q})
  IN  matching.called => Twins(Strip(Lower(matching.query)), matching.tasks)

\* C38 as stated: every step in which a turn begins while a confirmation is
\* pending, with the reply that the confirmation prompt asks for in the
\* language it was written in, leaves that turn at its delete_task call
\* for the pending task.
C38_PromptedReplyConfirms ==
  [][\A i \in 1..MaxConcurrent, ctx_user \in TurnUsers :
       (/\ pending_delete # NoPending
        /\ TurnRun(i, ctx_user, DELETE_CONFIRMATION_REPLY(pending_delete.lang)))
         => /\ turns'.slots[i].at = "call1"
            /\ turns'.slots[i].handler = "confirm"
            /\ turns'.slots[i].pending = pending_delete]_vars

(***************************************************************************)
(* Properties of the Recurring Task Consumer  (specification RecurSpec)    *)
(***************************************************************************)

\* C39 as stated: over any sequence of deliveries and redeliveries, at most
\* one next-occurrence task is created for each event_id, also after the
\* processed-event cache has grown past MAX_PROCESSED_CACHE.
C39_OneNextOccurrencePerEvent ==
  \A e \in EventIds : recurring.created[e] <= 1

(***************************************************************************)
(* Properties of the reminders  (specification RemindSpec)                 *)
(***************************************************************************)

\* C40 as stated: with the consumer's database configured, every
\* reminder.due event that check_reminders has published is eventually
\* answered SUCCESS by the notification consumer, and is answered SUCCESS
\* once only, however the commit of check_reminders and the consumer's
\* handling of the event interleave.
C40_PublishedRemindersAreDelivered ==
  \A event_id \in 1..MaxReminders :
    /\ (reminding.engine /\ Len(reminding.events) >= event_id)
         ~> (/\ Len(reminding.events) >= event_id
             /\ reminding.events[event_id].successes = 1)
    /\ [](Len(reminding.events) >= event_id => reminding.events[event_id].successes <= 1)
====
